---------------------------- MODULE Spec2Model ----------------------------
(***************************************************************************)
(* Model of the k8s-ga-optimizer evaluation-selection engine:              *)
(*   - the cluster gateway   (src/integrations/k8s_client.py),             *)
(*   - the fitness evaluator (src/ga/fitness.py),                          *)
(*   - the optimizer driver  (src/ga/optimizer.py).                        *)
(*                                                                         *)
(* Conventions.                                                            *)
(*   cpu_limit is a Python float; here it is the integer number of         *)
(*   thousandths of a core that the float stands for (0.5 -> 500).  The    *)
(*   float arithmetic the code performs on it is modelled by MilliTrunc.   *)
(*   A Kubernetes quantity string ("500m", "256Mi") is a record            *)
(*   [n |-> digits, suf |-> suffix].                                        *)
(*   Python None is the record None.                                       *)
(*   The Kubernetes API handle (_get_api) is taken to load: a process      *)
(*   with no kube config cannot run any of the operations below.           *)
(***************************************************************************)
EXTENDS Integers, Sequences, FiniteSets, TLC

VARIABLES
    dep,          \* the Deployment object held by the platform
    status,       \* the Deployment's status as published by the platform
    stale,        \* TRUE while the platform has not yet reacted to a spec change
    last_config,  \* KubernetesClient._last_config
    dry_run,      \* KubernetesClient.dry_run
    lastCall,     \* the most recent gateway call: its arguments, outcome, requests
    ncalls,       \* number of gateway calls made so far
    wait,         \* the wait_for_rollout call in progress, if any
    parallel,     \* GeneticOptimizer.parallel_evaluations
    params,       \* GeneticOptimizer.params
    population,   \* run(): population.individuals
    generation,   \* run(): population.generation (= the loop index gen)
    next_idx,     \* position of the next individual to hand to an evaluation
    workers,      \* the evaluations in progress, one per evaluating thread
    results,      \* _evaluate_population: results, in order of completion
    completed,    \* for each entry of results, the population position evaluated
    n_results,    \* len(GeneticOptimizer.evaluation_results)
    history,      \* GeneticOptimizer.history
    cache,        \* EvaluationCache._cache, by key
    best,         \* run(): best_individual and best_fitness
    phase,        \* where run() stands
    now,          \* time.time(), in seconds
    ecache,       \* EvaluationCache.cache with its timestamps
    lastGet,      \* the most recent EvaluationCache call and what it returned
    pconfig,      \* PrometheusClient.config
    pclient,      \* PrometheusClient._client is not None
    pcache,       \* PrometheusClient._cache
    pq,           \* the query_instant call in progress, if any
    produced,     \* the value the last population-manager call returned
    thr,          \* the EvaluationCache call each evaluating thread is making
    lt,           \* LoadTester.run: its locals shared by the workers, its result
    lw            \* LoadTester.run: each worker's locals and position

gwVars == <<dep, status, stale, last_config, dry_run, lastCall, ncalls, wait>>

drvVars == <<parallel, params, population, generation, next_idx, workers, results,
             completed, n_results, history, cache, best, phase>>

concVars == <<thr>>

loadVars == <<lt, lw>>

extVars == <<produced, concVars, loadVars>>

auxVars == <<now, ecache, lastGet, pconfig, pclient, pcache, pq, extVars>>

vars == <<gwVars, drvVars, auxVars>>

None == [none |-> TRUE]

(***************************************************************************)
(* Individuals (src/ga/types.py)                                           *)
(***************************************************************************)
NoName == ""

Individual(r, c, m, n) ==
    [replicas |-> r, cpu_limit |-> c, memory_limit |-> m, container_name |-> n]

\* Individual.__eq__: the identity triple, container_name left out
IndEq(a, b) ==
    /\ a.replicas = b.replicas
    /\ a.cpu_limit = b.cpu_limit
    /\ a.memory_limit = b.memory_limit

(***************************************************************************)
(* Quantities and their conversions                                        *)
(***************************************************************************)
Qty(n, suf) == [n |-> n, suf |-> suf]

\* The thousandths t (t < 4000) for which the double nearest to t/1000,
\* multiplied by 1000, lies below t, so that int() yields t-1:
\* int(1.001 * 1000) = 1000, int(2.01 * 1000) = 2009.
TruncDown == {1001 + 2 * k : k \in 0..11} \cup {2002 + 4 * k : k \in 0..11}

\* int(cpu_limit * 1000) of patch_resources
MilliTrunc(t) == IF t \in TruncDown THEN t - 1 ELSE t

\* f"{int(individual.cpu_limit * 1000)}m"
CpuQty(ind) == Qty(MilliTrunc(ind.cpu_limit), "m")

\* f"{int(individual.memory_limit)}Mi"
MemQty(ind) == Qty(ind.memory_limit, "Mi")

\* float(cpu_str.rstrip("m")) / 1000 if cpu_str.endswith("m") else float(cpu_str)
\* (ok = FALSE: float() raises ValueError)
ParseCpu(q) ==
    IF q.suf = "m" THEN [ok |-> TRUE, v |-> q.n]
    ELSE IF q.suf = "" THEN [ok |-> TRUE, v |-> q.n * 1000]
    ELSE [ok |-> FALSE, v |-> 0]

\* int(mem_str.rstrip("Mi")) if mem_str.endswith("Mi") else int(mem_str.rstrip("M"))
\* (ok = FALSE: int() raises ValueError)
ParseMem(q) ==
    IF q.suf \in {"Mi", "M", ""} THEN [ok |-> TRUE, v |-> q.n]
    ELSE [ok |-> FALSE, v |-> 0]

(***************************************************************************)
(* The Deployment object                                                   *)
(***************************************************************************)
ContainerName == "app-ga"

\* limits / requests: a record with the keys that are set; None = key absent
Deployment(e, r, lc, lm, rc, rm) ==
    [exists |-> e, replicas |-> r, container |-> ContainerName,
     limits |-> [cpu |-> lc, memory |-> lm],
     requests |-> [cpu |-> rc, memory |-> rm]]

(***************************************************************************)
(* KubernetesClient (src/integrations/k8s_client.py)                       *)
(***************************************************************************)
\* A request issued to the platform API and whether it succeeded
Req(r, ok) == [req |-> r, ok |-> ok]

_validate_individual(ind) ==
    IF ind.replicas < 1 \/ ind.replicas > 100 THEN "ConfigurationError"
    ELSE IF ind.cpu_limit < 10 \/ ind.cpu_limit > 100000 THEN "ConfigurationError"
    ELSE IF ind.memory_limit < 64 \/ ind.memory_limit > 100000 THEN "ConfigurationError"
    ELSE "ok"

\* read_namespaced_deployment; ApiException (also 404) gives None
_get_current_deployment(d, readOk) ==
    IF readOk /\ d.exists THEN d ELSE None

\* Mutant of _save_current_config: a snapshot already taken is kept.
_save_current_config_once(d, last, readOk) ==
    LET cur == _get_current_deployment(d, readOk)
        cpu_str == IF cur.limits.cpu = None THEN Qty(0, "") ELSE cur.limits.cpu
        mem_str == IF cur.limits.memory = None THEN Qty(0, "Mi") ELSE cur.limits.memory
        cpu_cores == ParseCpu(cpu_str)
        mem_mb == ParseMem(mem_str)
    IN  IF cur = None THEN [last |-> last, exc |-> "ok", log |-> <<Req("read", FALSE)>>]
        ELSE IF ~cpu_cores.ok \/ ~mem_mb.ok
             THEN [last |-> last, exc |-> "ValueError", log |-> <<Req("read", TRUE)>>]
        ELSE IF last # None
             THEN [last |-> last, exc |-> "ok", log |-> <<Req("read", TRUE)>>]
        ELSE [last |-> Individual(IF cur.replicas = 0 THEN 1 ELSE cur.replicas,
                                  cpu_cores.v, mem_mb.v, cur.container),
              exc |-> "ok", log |-> <<Req("read", TRUE)>>]

\* Returns the new _last_config, the exception raised and the requests issued.
_save_current_config(d, last, readOk) ==
    LET cur == _get_current_deployment(d, readOk)
        cpu_str == IF cur.limits.cpu = None THEN Qty(0, "") ELSE cur.limits.cpu
        mem_str == IF cur.limits.memory = None THEN Qty(0, "Mi") ELSE cur.limits.memory
        cpu_cores == ParseCpu(cpu_str)
        mem_mb == ParseMem(mem_str)
    IN  IF cur = None THEN [last |-> last, exc |-> "ok", log |-> <<Req("read", FALSE)>>]
        ELSE IF ~cpu_cores.ok \/ ~mem_mb.ok
             THEN [last |-> last, exc |-> "ValueError", log |-> <<Req("read", TRUE)>>]
        ELSE [last |-> Individual(IF cur.replicas = 0 THEN 1 ELSE cur.replicas,
                                  cpu_cores.v, mem_mb.v, cur.container),
              exc |-> "ok", log |-> <<Req("read", TRUE)>>]

\* Mutant of scale_deployment: dry_run is not looked at.
scale_deployment_always(d, replicas, dry, ok) ==
    IF ok /\ d.exists
    THEN [dep |-> [d EXCEPT !.replicas = replicas], exc |-> "ok",
          log |-> <<Req("scale", TRUE)>>]
    ELSE [dep |-> d, exc |-> "KubernetesError", log |-> <<Req("scale", FALSE)>>]

\* patch_namespaced_deployment_scale
scale_deployment(d, replicas, dry, ok) ==
    IF dry THEN [dep |-> d, exc |-> "ok", log |-> <<>>]
    ELSE IF ok /\ d.exists
         THEN [dep |-> [d EXCEPT !.replicas = replicas], exc |-> "ok",
               log |-> <<Req("scale", TRUE)>>]
         ELSE [dep |-> d, exc |-> "KubernetesError", log |-> <<Req("scale", FALSE)>>]

\* patch_namespaced_deployment: requests and limits both set to the same values
patch_resources(d, ind, dry, ok) ==
    LET res == [cpu |-> CpuQty(ind), memory |-> MemQty(ind)]
    IN  IF dry THEN [dep |-> d, exc |-> "ok", log |-> <<>>]
        ELSE IF ok /\ d.exists
             THEN [dep |-> [d EXCEPT !.limits = res, !.requests = res],
                   exc |-> "ok", log |-> <<Req("patch", TRUE)>>]
             ELSE [dep |-> d, exc |-> "KubernetesError", log |-> <<Req("patch", FALSE)>>]

\* Mutant of ScaleThenPatch: the resource patch is sent first.
PatchThenScale(d, ind, dry, fl) ==
    LET p == patch_resources(d, ind, dry, fl.patch)
        sc == scale_deployment(p.dep, ind.replicas, dry, fl.scale)
    IN  IF p.exc # "ok" THEN p
        ELSE [dep |-> sc.dep, exc |-> sc.exc, log |-> p.log \o sc.log]

\* The two mutations of apply_configuration, in the order of its try block.
ScaleThenPatch(d, ind, dry, fl) ==
    LET sc == scale_deployment(d, ind.replicas, dry, fl.scale)
        p == patch_resources(sc.dep, ind, dry, fl.patch)
    IN  IF sc.exc # "ok" THEN sc
        ELSE [dep |-> p.dep, exc |-> p.exc, log |-> sc.log \o p.log]

\* Mutant of apply_configuration: the snapshot is taken before validation.
ApplySaveBeforeValidate(d, last, dry, ind, save, fl) ==
    LET v == _validate_individual(ind)
        s == IF save THEN _save_current_config(d, last, fl.read)
             ELSE [last |-> last, exc |-> "ok", log |-> <<>>]
        m == ScaleThenPatch(d, ind, dry, fl)
    IN  IF s.exc # "ok" THEN [dep |-> d, last |-> s.last, exc |-> s.exc, log |-> s.log]
        ELSE IF v # "ok" THEN [dep |-> d, last |-> s.last, exc |-> v, log |-> s.log]
        ELSE [dep |-> m.dep, last |-> s.last, exc |-> m.exc, log |-> s.log \o m.log]

\* Mutant of apply_configuration: the snapshot is kept only when the
\* mutation succeeded.
ApplySaveOnSuccess(d, last, dry, ind, save, fl) ==
    LET v == _validate_individual(ind)
        s == IF save THEN _save_current_config(d, last, fl.read)
             ELSE [last |-> last, exc |-> "ok", log |-> <<>>]
        m == ScaleThenPatch(d, ind, dry, fl)
    IN  IF v # "ok" THEN [dep |-> d, last |-> last, exc |-> v, log |-> <<>>]
        ELSE IF s.exc # "ok" THEN [dep |-> d, last |-> last, exc |-> s.exc, log |-> s.log]
        ELSE [dep |-> m.dep, last |-> IF m.exc = "ok" THEN s.last ELSE last,
              exc |-> m.exc, log |-> s.log \o m.log]

\* fl: which of the platform requests of this call succeed
apply_configuration(d, last, dry, ind, save, fl) ==
    LET v == _validate_individual(ind)
        s == IF save THEN _save_current_config(d, last, fl.read)
             ELSE [last |-> last, exc |-> "ok", log |-> <<>>]
        m == ScaleThenPatch(d, ind, dry, fl)
    IN  IF v # "ok" THEN [dep |-> d, last |-> last, exc |-> v, log |-> <<>>]
        ELSE IF s.exc # "ok" THEN [dep |-> d, last |-> s.last, exc |-> s.exc, log |-> s.log]
        ELSE [dep |-> m.dep, last |-> s.last, exc |-> m.exc, log |-> s.log \o m.log]

\* Mutant of rollback: the re-apply takes a snapshot.
rollback_saving(d, last, dry, fl) ==
    LET r == apply_configuration(d, last, dry, last, TRUE, fl)
    IN  IF last = None THEN [dep |-> d, last |-> last, ret |-> FALSE, log |-> <<>>]
        ELSE [dep |-> r.dep, last |-> r.last, ret |-> (r.exc = "ok"), log |-> r.log]

\* rollback(): ret is the value returned; exceptions are swallowed
rollback(d, last, dry, fl) ==
    LET r == apply_configuration(d, last, dry, last, FALSE, fl)
    IN  IF last = None THEN [dep |-> d, last |-> last, ret |-> FALSE, log |-> <<>>]
        ELSE [dep |-> r.dep, last |-> r.last, ret |-> (r.exc = "ok"), log |-> r.log]

\* k8s_manager.apply_k8s_configuration (the module-level variant: no snapshot)
apply_k8s_configuration(d, dry, ind, fl) ==
    LET m == ScaleThenPatch(d, ind, dry, fl)
    IN  IF _validate_individual(ind) # "ok"
        THEN [dep |-> d, exc |-> "ValueError", log |-> <<>>]
        ELSE m

(***************************************************************************)
(* Gateway calls as actions                                                *)
(***************************************************************************)
\* Number of gateway calls explored on one client
MaxCalls == 3

Flags == [read : BOOLEAN, scale : BOOLEAN, patch : BOOLEAN]

Call(op, ind, save, exc, ret, log, d0) ==
    [op |-> op, ind |-> ind, save |-> save, exc |-> exc, ret |-> ret,
     log |-> log, dep0 |-> d0]

Apply(ind, save, fl) ==
    LET r == apply_configuration(dep, last_config, dry_run, ind, save, fl)
    IN  /\ ncalls < MaxCalls
        /\ dep' = r.dep
        /\ last_config' = r.last
        /\ stale' = (stale \/ r.dep # dep)
        /\ lastCall' = Call("apply", ind, save, r.exc, FALSE, r.log, dep)
        /\ ncalls' = ncalls + 1
        /\ UNCHANGED <<status, dry_run, wait>>
        /\ UNCHANGED <<drvVars, auxVars>>

Rollback(fl) ==
    LET r == rollback(dep, last_config, dry_run, fl)
    IN  /\ ncalls < MaxCalls
        /\ dep' = r.dep
        /\ last_config' = r.last
        /\ stale' = (stale \/ r.dep # dep)
        /\ lastCall' = Call("rollback", last_config, FALSE, "ok", r.ret, r.log, dep)
        /\ ncalls' = ncalls + 1
        /\ UNCHANGED <<status, dry_run, wait>>
        /\ UNCHANGED <<drvVars, auxVars>>

ApplyK8sManager(ind, fl) ==
    LET r == apply_k8s_configuration(dep, dry_run, ind, fl)
    IN  /\ ncalls < MaxCalls
        /\ dep' = r.dep
        /\ stale' = (stale \/ r.dep # dep)
        /\ lastCall' = Call("apply_k8s", ind, FALSE, r.exc, FALSE, r.log, dep)
        /\ ncalls' = ncalls + 1
        /\ UNCHANGED <<last_config, status, dry_run, wait>>
        /\ UNCHANGED <<drvVars, auxVars>>

(***************************************************************************)
(* SpecApply: apply / rollback calls on one KubernetesClient, against the  *)
(* deployments a cluster may hold when the client is constructed           *)
(***************************************************************************)
Q500m == Qty(500, "m")
Q256Mi == Qty(256, "Mi")

InitDeployments ==
    { Deployment(TRUE, 2, Q500m, Q256Mi, Q500m, Q256Mi),
      Deployment(TRUE, 0, Q500m, Q256Mi, Qty(250, "m"), Q256Mi),
      Deployment(TRUE, 3, Qty(1001, "m"), Qty(300, "Mi"), Qty(1001, "m"), Qty(300, "Mi")),
      Deployment(TRUE, 2, Qty(5, "m"), Qty(32, "Mi"), Qty(5, "m"), Qty(32, "Mi")),
      Deployment(TRUE, 1, Qty(1, ""), Qty(1, "Gi"), Qty(1, ""), Qty(1, "Gi")),
      Deployment(TRUE, 2, None, None, None, None),
      Deployment(FALSE, 0, None, None, None, None) }

\* Individuals handed to apply: typical ones and the two sides of each bound
\* of _validate_individual.
LowInd == Individual(1, 10, 64, NoName)
HighInd == Individual(100, 100000, 100000, NoName)

ValidInds ==
    { Individual(4, 1000, 512, NoName), Individual(2, 2010, 256, ContainerName),
      LowInd, HighInd }

InvalidInds ==
    { [LowInd EXCEPT !.replicas = 0], [HighInd EXCEPT !.replicas = 101],
      [LowInd EXCEPT !.cpu_limit = 9], [HighInd EXCEPT !.cpu_limit = 100001],
      [LowInd EXCEPT !.memory_limit = 63], [HighInd EXCEPT !.memory_limit = 100001] }

ApplyInds == ValidInds \cup InvalidInds

LegacyInds == { Individual(4, 1000, 512, NoName), [LowInd EXCEPT !.replicas = 0] }

NoStatus == [replicas |-> 0, updated |-> 0, available |-> 0, ready |-> 0, unavailable |-> 0]
NoCall == Call("none", None, FALSE, "ok", FALSE, <<>>, None)
NoWait == [pc |-> "idle"]

\* No population-manager call has been made on its own, no thread is in
\* the evaluation cache and no load test has been started
NoExt ==
    /\ produced = None
    /\ thr = <<>>
    /\ lt = None
    /\ lw = <<>>

\* Neither a telemetry client nor a stand-alone evaluation cache is in use.
NoAux ==
    /\ NoExt
    /\ now = 0
    /\ ecache = <<>>
    /\ lastGet = None
    /\ pconfig = None
    /\ pclient = FALSE
    /\ pcache = <<>>
    /\ pq = None

\* No optimizer has been constructed: the gateway is driven directly.
NoDriver ==
    /\ parallel = FALSE
    /\ params = None
    /\ population = <<>>
    /\ generation = 0
    /\ next_idx = 1
    /\ workers = <<>>
    /\ results = <<>>
    /\ completed = <<>>
    /\ n_results = 0
    /\ history = <<>>
    /\ cache = <<>>
    /\ best = None
    /\ phase = "none"

InitApply ==
    /\ dep \in InitDeployments
    /\ status = NoStatus
    /\ stale = FALSE
    /\ last_config = None
    /\ dry_run \in BOOLEAN
    /\ lastCall = NoCall
    /\ ncalls = 0
    /\ wait = NoWait
    /\ NoDriver
    /\ NoAux

NextApply ==
    \/ \E ind \in ApplyInds, save \in BOOLEAN, fl \in Flags : Apply(ind, save, fl)
    \/ \E fl \in Flags : Rollback(fl)
    \/ \E ind \in LegacyInds, fl \in Flags : ApplyK8sManager(ind, fl)

SpecApply == InitApply /\ [][NextApply]_vars

(***************************************************************************)
(* wait_for_rollout and the platform's deployment controller               *)
(***************************************************************************)
\* K8S_ROLLOUT_TIMEOUT, scaled down (the code's default is 120 s)
RolloutTimeout == 12

CheckInterval == 5

\* Seconds one status request may take
PollDurations == {0, 1}

Status(d, u, a, r) ==
    [replicas |-> d, updated |-> u, available |-> a, ready |-> r, unavailable |-> d - a]

\* Mutant of RolloutComplete: available replicas are not looked at.
RolloutCompleteNoAvailable(st) ==
    /\ st.replicas > 0
    /\ st.replicas = st.updated
    /\ st.updated = st.ready

\* desired > 0 and desired == updated == available == ready
RolloutComplete(st) ==
    /\ st.replicas > 0
    /\ st.replicas = st.updated
    /\ st.updated = st.available
    /\ st.available = st.ready

ApiException == [exception |-> "ApiException"]

\* timeout = timeout or self.rollout_timeout; start_time = time.time()
WaitStart(t) ==
    /\ wait.pc # "polling"
    /\ ncalls < MaxCalls
    /\ wait' = [pc |-> "polling", timeout |-> IF t = 0 THEN RolloutTimeout ELSE t,
                elapsed |-> 0, polls |-> 0, obs |-> None, ret |-> FALSE]
    /\ ncalls' = ncalls + 1
    /\ lastCall' = Call("wait_for_rollout", None, FALSE, "ok", FALSE, <<>>, None)
    /\ UNCHANGED <<dep, status, stale, last_config, dry_run>>
    /\ UNCHANGED <<drvVars, auxVars>>

\* What one pass of the loop body decides from what the status request gave
PollOutcome(obs) ==
    IF obs # ApiException /\ RolloutComplete(obs) THEN "return True" ELSE "sleep"

\* One pass of the while loop: the status request (which may raise
\* ApiException), the test, and the sleep.
Poll(apiOk, d) ==
    LET obs == IF apiOk /\ dep.exists THEN status ELSE ApiException
    IN  /\ wait.pc = "polling"
        /\ wait.elapsed < wait.timeout
        /\ wait' = IF PollOutcome(obs) = "return True"
                   THEN [wait EXCEPT !.pc = "done", !.ret = TRUE, !.obs = obs,
                                     !.polls = @ + 1, !.elapsed = @ + d]
                   ELSE [wait EXCEPT !.obs = obs, !.polls = @ + 1,
                                     !.elapsed = @ + d + CheckInterval]
        /\ UNCHANGED <<dep, status, stale, last_config, dry_run, lastCall, ncalls>>
        /\ UNCHANGED <<drvVars, auxVars>>

\* The loop condition fails: return False
WaitTimeout ==
    /\ wait.pc = "polling"
    /\ ~(wait.elapsed < wait.timeout)
    /\ wait' = [wait EXCEPT !.pc = "done", !.ret = FALSE]
    /\ UNCHANGED <<dep, status, stale, last_config, dry_run, lastCall, ncalls>>
    /\ UNCHANGED <<drvVars, auxVars>>

\* The deployment controller notices the new spec and starts replacing pods.
PlatformReact ==
    /\ stale
    /\ stale' = FALSE
    /\ status' = Status(dep.replicas, 0, 0, 0)
    /\ UNCHANGED <<dep, last_config, dry_run, lastCall, ncalls, wait>>
    /\ UNCHANGED <<drvVars, auxVars>>

\* A pod of the new template is created, becomes ready, becomes available.
PodProgress ==
    /\ ~stale
    /\ \/ /\ status.updated < status.replicas
          /\ status' = [status EXCEPT !.updated = @ + 1]
       \/ /\ status.ready < status.updated
          /\ status' = [status EXCEPT !.ready = @ + 1]
       \/ /\ status.available < status.ready
          /\ status' = [status EXCEPT !.available = @ + 1, !.unavailable = @ - 1]
    /\ UNCHANGED <<dep, stale, last_config, dry_run, lastCall, ncalls, wait>>
    /\ UNCHANGED <<drvVars, auxVars>>

(***************************************************************************)
(* SpecRollout: one client applying configurations and waiting for the     *)
(* rollout while the platform converges                                    *)
(***************************************************************************)
RolloutInds == { Individual(1, 1000, 512, NoName), Individual(2, 500, 256, NoName) }

\* Explicit timeout arguments of wait_for_rollout (0: none given)
WaitTimeouts == {0, 6}

AllSucceed == [read |-> TRUE, scale |-> TRUE, patch |-> TRUE]

InitRollout ==
    /\ dep = Deployment(TRUE, 2, Q500m, Q256Mi, Q500m, Q256Mi)
    /\ status = Status(2, 2, 2, 2)
    /\ stale = FALSE
    /\ last_config = None
    /\ dry_run \in BOOLEAN
    /\ lastCall = NoCall
    /\ ncalls = 0
    /\ wait = NoWait
    /\ NoDriver
    /\ NoAux

WaitStep ==
    \/ \E apiOk \in BOOLEAN, d \in PollDurations : Poll(apiOk, d)
    \/ WaitTimeout

NextRollout ==
    \/ \E ind \in RolloutInds : wait.pc # "polling" /\ Apply(ind, TRUE, AllSucceed)
    \/ wait.pc # "polling" /\ Rollback(AllSucceed)
    \/ \E t \in WaitTimeouts : WaitStart(t)
    \/ WaitStep
    \/ PlatformReact
    \/ PodProgress

SpecRollout == InitRollout /\ [][NextRollout]_vars

\* The waiting thread is never suspended for ever: sleep and the status
\* request (bounded by its timeout) return.
SpecRolloutFair == SpecRollout /\ WF_gwVars(WaitStep)

(***************************************************************************)
(* Population manager (src/ga/population.py)                               *)
(*                                                                         *)
(* Every use of the random module is a nondeterministic choice: an         *)
(* operator returns the set of values the call can return.  Rates are in   *)
(* percent.  GA bounds on cpu are whole hundredths of a core.              *)
(***************************************************************************)
Min(a, b) == IF a < b THEN a ELSE b
Max(a, b) == IF a > b THEN a ELSE b

\* max(lo, min(hi, x))
Clamp(lo, hi, x) == Max(lo, Min(hi, x))

\* round(x, 2) on thousandths; an exact half goes to the even hundredth
Round2(t) ==
    LET q == t \div 10
        r == t % 10
    IN  IF r < 5 THEN 10 * q
        ELSE IF r > 5 THEN 10 * (q + 1)
        ELSE IF q % 2 = 0 THEN 10 * q ELSE 10 * (q + 1)

\* int(round(s / 2)): Python rounds an exact half to the even integer
RoundHalf(s) ==
    LET k == s \div 2
    IN  IF s % 2 = 0 THEN k ELSE IF k % 2 = 0 THEN k ELSE k + 1

\* the hundredths round(uniform(lo, hi), 2) can return
Hundredths(lo, hi) == { 10 * h : h \in (Round2(lo) \div 10)..(Round2(hi) \div 10) }

create_random_individual(p) ==
    { Individual(r, c, m, NoName) :
        r \in p.replicas_bounds[1]..p.replicas_bounds[2],
        c \in Hundredths(p.cpu_limit_bounds[1], p.cpu_limit_bounds[2]),
        m \in p.memory_limit_bounds[1]..p.memory_limit_bounds[2] }

create_initial_population(p) ==
    [1..p.population_size -> create_random_individual(p)]

validate_individual(p, ind) ==
    Individual(Clamp(p.replicas_bounds[1], p.replicas_bounds[2], ind.replicas),
               Round2(Clamp(p.cpu_limit_bounds[1], p.cpu_limit_bounds[2], ind.cpu_limit)),
               Clamp(p.memory_limit_bounds[1], p.memory_limit_bounds[2], ind.memory_limit),
               ind.container_name)

\* Mutant of MutationStep: the product is rounded up.
MutationStepCeil(lo, hi) == (hi - lo + 9) \div 10

\* int(range_size * strength) with strength = 0.1
MutationStep(lo, hi) == (hi - lo) \div 10

\* random.choice(["replicas", "cpu_limit", "memory_limit"])
MutableParams == { "replicas", "cpu_limit", "memory_limit" }

\* mutate, after param is chosen: the validated individuals it can return
mutate_param(p, ind, param) ==
    LET rk == MutationStep(p.replicas_bounds[1], p.replicas_bounds[2])
        mk == MutationStep(p.memory_limit_bounds[1], p.memory_limit_bounds[2])
        \* gauss(0, 0) is 0; any other gauss reaches every value after clamping
        cs == IF p.cpu_limit_bounds[1] = p.cpu_limit_bounds[2]
              THEN { ind.cpu_limit }
              ELSE Hundredths(p.cpu_limit_bounds[1], p.cpu_limit_bounds[2])
        changed ==
            CASE param = "replicas" ->
                    { [ind EXCEPT !.replicas = @ + d] : d \in (0 - rk)..rk }
              [] param = "cpu_limit" ->
                    { [ind EXCEPT !.cpu_limit = c] : c \in cs }
              [] param = "memory_limit" ->
                    { [ind EXCEPT !.memory_limit = @ + d] : d \in (0 - mk)..mk }
    IN  { validate_individual(p, x) : x \in changed }

\* `if random.random() > rate: return copy`: random() is uniform over
\* [0, 1), so the copy is returned with probability 1 - rate and the change
\* is made with probability rate; a branch is taken when its probability is
\* positive (the one float 0.0 among the 2^53 that random() returns is not
\* told apart from its neighbours).  The same holds for crossover.
mutate(p, ind) ==
    (IF p.mutation_rate < 100 THEN { ind } ELSE {})
    \cup (IF p.mutation_rate > 0
          THEN UNION { mutate_param(p, ind, param) : param \in MutableParams }
          ELSE {})

\* round(alpha * c1 + (1 - alpha) * c2, 2) for alpha in [0.3, 0.7]
CpuBlend(c1, c2) ==
    LET a == Min(3 * c1 + 7 * c2, 7 * c1 + 3 * c2)
        b == Max(3 * c1 + 7 * c2, 7 * c1 + 3 * c2)
    IN  { 10 * h : h \in { k \in (a \div 100 - 1)..(b \div 100 + 1) :
                            a - 50 < 100 * k /\ 100 * k < b + 50 } }

crossover(p, p1, p2) ==
    LET rs == { p1.replicas, p2.replicas, RoundHalf(p1.replicas + p2.replicas) }
        ms == { p1.memory_limit, p2.memory_limit,
                RoundHalf(p1.memory_limit + p2.memory_limit) }
        cs == CpuBlend(p1.cpu_limit, p2.cpu_limit)
    IN  (IF p.crossover_rate < 100 THEN { p1, p2 } ELSE {})
        \cup (IF p.crossover_rate > 0
              THEN { validate_individual(p, Individual(r, c, m, NoName)) :
                       r \in rs, c \in cs, m \in ms }
              ELSE {})

\* the individuals a tournament over (inds, scores) can return
tournament_select(p, inds, scores) ==
    LET n == Len(inds)
        k == Min(p.tournament_size, n)
    IN  { inds[i] : i \in { j \in 1..n :
            \E S \in SUBSET (1..n) :
                /\ Cardinality(S) = k
                /\ j \in S
                /\ \A x \in S : scores[x] <= scores[j] } }

\* parent2 is drawn again, at most 10 times, while it equals parent1: the
\* last draw may still equal it
select_parents(p, inds, scores) ==
    tournament_select(p, inds, scores) \X tournament_select(p, inds, scores)

\* Mutant of SortedByFitness: ascending order.
SortedAscending(scores) ==
    LET n == Len(scores)
        rank(i) == Cardinality({ j \in 1..n :
                        scores[j] < scores[i] \/ (scores[j] = scores[i] /\ j < i) }) + 1
    IN  [k \in 1..n |-> CHOOSE i \in 1..n : rank(i) = k]

\* sorted(..., key = score, reverse = True): stable, so equal scores keep
\* their order; the result is the sequence of positions
SortedByFitness(scores) ==
    LET n == Len(scores)
        rank(i) == Cardinality({ j \in 1..n :
                        scores[j] > scores[i] \/ (scores[j] = scores[i] /\ j < i) }) + 1
    IN  [k \in 1..n |-> CHOOSE i \in 1..n : rank(i) = k]

\* Mutant of ChildrenNeeded: the elite is not counted.
ChildrenNeededAll(n, ne) == n

\* evolve: children are made while len(children) < len(individuals) - len(elite)
ChildrenNeeded(n, ne) == n - ne

\* Mutant of survivor_count: the whole population survives.
survivor_count_all(n) == n

\* evolve: survivor_count = max(1, len(population.individuals) // 2)
survivor_count(n) == Max(1, n \div 2)

\* the populations evolve() can return
evolve(p, inds, scores) ==
    LET n        == Len(inds)
        order    == SortedByFitness(scores)
        ne       == Min(p.elitism_count, n)
        ns       == survivor_count(n)
        elite    == [k \in 1..ne |-> inds[order[k]]]
        survivors       == [k \in 1..ns |-> inds[order[k]]]
        survivor_scores == [k \in 1..ns |-> scores[order[k]]]
        kids     == UNION { crossover(p, pr[1], pr[2]) :
                              pr \in select_parents(p, survivors, survivor_scores) }
        children == UNION { mutate(p, c) : c \in kids }
    IN  { elite \o ch : ch \in [1..ChildrenNeeded(n, ne) -> children] }

(***************************************************************************)
(* Evaluator and driver (src/ga/fitness.py, src/ga/optimizer.py)           *)
(*                                                                         *)
(* An evaluation is a thread of control: in sequential mode the thread of  *)
(* run() (worker 1), in parallel mode the threads of the pool.  Each call  *)
(* the evaluation makes (cache lookup, apply, rollout wait, load test,     *)
(* telemetry queries, fitness) is one step, so that the steps of two       *)
(* evaluations interleave as the threads' calls do.  The rollout wait is   *)
(* taken by its return value; SpecRollout has its inner steps.             *)
(***************************************************************************)
PopulationSize == 2
Generations == 2

\* GeneticOptimizer.max_workers
MaxWorkers == 2

Workers == 1..MaxWorkers

\* The GA parameters of the runs explored, by their bounds on replicas
GAParams(rb) ==
    [ population_size |-> PopulationSize, generations |-> Generations,
      mutation_rate |-> 20, crossover_rate |-> 80,
      elitism_count |-> 1, tournament_size |-> 2,
      replicas_bounds |-> rb,
      cpu_limit_bounds |-> <<500, 500>>,
      memory_limit_bounds |-> <<256, 256>> ]

\* float("-inf"): fitness values are never negative
NegInf == -1

\* Exception classes raised inside an evaluation; all derive from Exception
Exceptions ==
    { "ConfigurationError", "KubernetesError", "ValueError",
      "LoadTestError", "PrometheusError" }

\* Mutant of Catches: the handlers let configuration errors through.
CatchesNotConfigurationError(site, exc) ==
    exc \in Exceptions \ { "ConfigurationError" }

\* Mutant of Catches: the handlers let platform errors through.
CatchesNotKubernetesError(site, exc) ==
    exc \in Exceptions \ { "KubernetesError" }

\* `except Exception` at site: evaluate (fitness.py), _evaluate_individual,
\* the as_completed loop and the final apply of run() (optimizer.py)
Catches(site, exc) ==
    exc \in Exceptions

\* EvaluationCache._get_key: the hash of to_dict(), by the dict it hashes
_get_key(ind) ==
    IF ind.container_name # NoName
    THEN <<ind.replicas, ind.cpu_limit, ind.memory_limit, ind.container_name>>
    ELSE <<ind.replicas, ind.cpu_limit, ind.memory_limit>>

\* Mutant of CachePut: a result with fitness 0 is not stored.
CachePutSuccessful(c, ind, res) ==
    IF res.fitness = 0 THEN c
    ELSE [k \in DOMAIN c \cup { _get_key(ind) } |->
             IF k = _get_key(ind) THEN res ELSE c[k]]

\* EvaluationCache.put
CachePut(c, ind, res) ==
    [k \in DOMAIN c \cup { _get_key(ind) } |->
        IF k = _get_key(ind) THEN res ELSE c[k]]

\* EvaluationCache.get removing an expired entry
CacheDel(c, ind) ==
    [k \in DOMAIN c \ { _get_key(ind) } |-> c[k]]

\* A call made by an evaluation and how it returned: "ok", "false" (a
\* rollout wait returning False) or the exception raised
Step(name, out) == [name |-> name, out |-> out]

\* Mutant of NextStep: the load test is started before the rollout wait.
NextStepLoadFirst(pc) ==
    CASE pc = "apply"     -> "load"
      [] pc = "load"      -> "rollout"
      [] pc = "rollout"   -> "telemetry"
      [] pc = "telemetry" -> "fitness"

\* evaluate: the statement that follows the one at pc when it returns
NextStep(pc) ==
    CASE pc = "apply"     -> "rollout"
      [] pc = "rollout"   -> "load"
      [] pc = "load"      -> "telemetry"
      [] pc = "telemetry" -> "fitness"

\* Mutant of AfterRollout: the value of wait_for_rollout is not looked at.
AfterRolloutIgnored(ok) == NextStep("rollout")

\* evaluate: `if not rollout_success: return 0.0, FitnessMetrics()`
AfterRollout(ok) == IF ok THEN NextStep("rollout") ELSE "return_zero"

\* An EvaluationResult.  steps and raised are not fields of the code's
\* record: they keep the calls the evaluation made and the exception that
\* ended it, for the properties.
Result(ind, f, metrics, error, steps, raised) ==
    [individual |-> ind, fitness |-> f, metrics |-> metrics, error |-> error,
     steps |-> steps, raised |-> raised]

\* FitnessCalculator.calculate, by rank: a faster load test and telemetry
\* that returned values score higher; a completed evaluation scores > 0
LoadOutcomes == { "slow", "fast", "LoadTestError" }
TelemetryOutcomes == { "values", "default", "PrometheusError" }

calculate(load, telem) ==
    (IF load = "fast" THEN 2 ELSE 1) + (IF telem = "values" THEN 1 ELSE 0)

IdleWorker ==
    [pc |-> "idle", idx |-> 0, ind |-> None, steps |-> <<>>, load |-> "", telem |-> ""]

\* _evaluate_population takes the thread pool
UseParallel == parallel /\ Len(population) > 1

\* What becomes of exception exc raised inside evaluate() on thread w
\*   "zero":  evaluate returns (0.0, FitnessMetrics()); the result is cached
\*   "error": _evaluate_individual or the as_completed loop builds the
\*            error result; nothing is cached
\*   "abort": the exception leaves run()
Handling(exc) ==
    IF Catches("evaluate", exc) THEN "zero"
    ELSE IF Catches("_evaluate_individual", exc) THEN "error"
    ELSE IF UseParallel /\ Catches("as_completed", exc) THEN "error"
    ELSE "abort"

\* The evaluation on thread w returns res; put: the result is cached
Complete(w, res, put) ==
    /\ results' = Append(results, res)
    /\ completed' = Append(completed, workers[w].idx)
    /\ cache' = IF put THEN CachePut(cache, res.individual, res) ELSE cache
    /\ workers' = [workers EXCEPT ![w] = IdleWorker]
    /\ phase' = phase

\* exc is raised inside evaluate() on thread w
Raise(w, exc) ==
    LET ind == workers[w].ind
        st  == Append(workers[w].steps, Step(workers[w].pc, exc))
        h   == Handling(exc)
    IN  IF h = "zero"
        THEN Complete(w, Result(ind, 0, "zero", "", st, exc), TRUE)
        ELSE IF h = "error"
        THEN Complete(w, Result(ind, 0, "none", exc, st, exc), FALSE)
        ELSE /\ phase' = "aborted"
             /\ workers' = [workers EXCEPT ![w] = IdleWorker]
             /\ UNCHANGED <<results, completed, cache>>

\* A thread takes the next individual of the population: the loop of the
\* sequential branch, or a pool thread taking the next submitted future
StartEval(w) ==
    /\ phase = "evaluating"
    /\ workers[w].pc = "idle"
    /\ next_idx <= Len(population)
    /\ IF UseParallel THEN TRUE
       ELSE w = 1 /\ Len(results) = next_idx - 1
    /\ workers' = [workers EXCEPT ![w] =
                     [IdleWorker EXCEPT !.pc = "cache", !.idx = next_idx,
                                        !.ind = population[next_idx]]]
    /\ next_idx' = next_idx + 1
    /\ UNCHANGED <<gwVars, parallel, params, population, generation, results, completed, n_results,
                   history, cache, best, phase>>
    /\ UNCHANGED auxVars

\* Mutant of CacheHit: a cached result is never used.
CacheHitNever(c, ind, expired) == FALSE

\* cache.get(individual) returns a result: an entry is there and is younger
\* than the ttl
CacheHit(c, ind, expired) == _get_key(ind) \in DOMAIN c /\ ~expired

\* _evaluate_individual: cache.get; expired: the entry is older than the ttl
CacheLookup(w, expired) ==
    LET key == _get_key(workers[w].ind)
    IN  /\ phase = "evaluating"
        /\ workers[w].pc = "cache"
        /\ IF CacheHit(cache, workers[w].ind, expired)
           THEN Complete(w, cache[key], FALSE)
           ELSE /\ cache' = IF key \in DOMAIN cache /\ expired
                            THEN CacheDel(cache, workers[w].ind) ELSE cache
                /\ workers' = [workers EXCEPT ![w].pc = "apply"]
                /\ UNCHANGED <<results, completed, phase>>
        /\ UNCHANGED <<gwVars, parallel, params, population, generation, next_idx,
                       n_results, history, best>>
        /\ UNCHANGED auxVars

\* evaluate step 1: apply_configuration(individual, save_for_rollback=True)
EvalApply(w, fl) ==
    LET r == apply_configuration(dep, last_config, dry_run, workers[w].ind, TRUE, fl)
    IN  /\ phase = "evaluating"
        /\ workers[w].pc = "apply"
        /\ dep' = r.dep
        /\ last_config' = r.last
        /\ IF r.exc = "ok"
           THEN /\ workers' = [workers EXCEPT ![w].pc = NextStep("apply"),
                                              ![w].steps = Append(@, Step("apply", "ok"))]
                /\ UNCHANGED <<results, completed, cache, phase>>
           ELSE Raise(w, r.exc)
        /\ UNCHANGED <<status, stale, dry_run, lastCall, ncalls, wait, parallel,
                       params, population, generation, next_idx, n_results, history, best>>
        /\ UNCHANGED auxVars

\* evaluate step 2: wait_for_rollout() returns ok
EvalRollout(w, ok) ==
    /\ phase = "evaluating"
    /\ workers[w].pc = "rollout"
    /\ IF AfterRollout(ok) = "return_zero"
       THEN Complete(w, Result(workers[w].ind, 0, "zero", "",
                               Append(workers[w].steps, Step("rollout", "false")),
                               ""), TRUE)
       ELSE /\ workers' = [workers EXCEPT
                             ![w].pc = AfterRollout(ok),
                             ![w].steps = Append(@, Step("rollout",
                                               IF ok THEN "ok" ELSE "false"))]
            /\ UNCHANGED <<results, completed, cache, phase>>
    /\ UNCHANGED <<gwVars, parallel, params, population, generation, next_idx,
                   n_results, history, best>>
    /\ UNCHANGED auxVars

\* evaluate step 3: load_tester.run(url) returns or raises LoadTestError
EvalLoad(w, out) ==
    /\ phase = "evaluating"
    /\ workers[w].pc = "load"
    /\ IF out \in Exceptions
       THEN Raise(w, out)
       ELSE /\ workers' = [workers EXCEPT ![w].pc = NextStep("load"), ![w].load = out,
                                          ![w].steps = Append(@, Step("load", "ok"))]
            /\ UNCHANGED <<results, completed, cache, phase>>
    /\ UNCHANGED <<gwVars, parallel, params, population, generation, next_idx,
                   n_results, history, best>>
    /\ UNCHANGED auxVars

\* evaluate step 4: the six telemetry queries, each returning a value or
\* its default, or one of them raising PrometheusError when its retries
\* are spent
EvalTelemetry(w, out) ==
    /\ phase = "evaluating"
    /\ workers[w].pc = "telemetry"
    /\ IF out \in Exceptions
       THEN Raise(w, out)
       ELSE /\ workers' = [workers EXCEPT ![w].pc = NextStep("telemetry"),
                                          ![w].telem = out,
                                          ![w].steps = Append(@, Step("telemetry", "ok"))]
            /\ UNCHANGED <<results, completed, cache, phase>>
    /\ UNCHANGED <<gwVars, parallel, params, population, generation, next_idx,
                   n_results, history, best>>
    /\ UNCHANGED auxVars

\* evaluate steps 5 and 6: the metrics record and calculate(); evaluate
\* returns, and _evaluate_individual caches and returns the result
EvalFitness(w) ==
    /\ phase = "evaluating"
    /\ workers[w].pc = "fitness"
    /\ Complete(w, Result(workers[w].ind,
                          calculate(workers[w].load, workers[w].telem),
                          "measured", "",
                          Append(workers[w].steps, Step("fitness", "ok")), ""), TRUE)
    /\ UNCHANGED <<gwVars, parallel, params, population, generation, next_idx,
                   n_results, history, best>>
    /\ UNCHANGED auxVars

\* _evaluate_population, parallel branch: result_map[ind], the last result
\* completed whose individual equals ind
ResultFor(rs, ind) ==
    rs[CHOOSE i \in DOMAIN rs :
          /\ IndEq(rs[i].individual, ind)
          /\ \A j \in DOMAIN rs : IndEq(rs[j].individual, ind) => j <= i]

\* the list _evaluate_population returns
OrderedResults ==
    IF UseParallel
    THEN [i \in DOMAIN population |-> ResultFor(results, population[i])]
    ELSE results

\* Mutant of BestIdx: the last position of the maximum.
BestIdxLast(scores) ==
    CHOOSE i \in DOMAIN scores :
        /\ \A j \in DOMAIN scores : scores[j] <= scores[i]
        /\ \A j \in DOMAIN scores : scores[j] = scores[i] => j <= i

\* max(range(len(scores)), key = ...): the first position of the maximum
BestIdx(scores) ==
    CHOOSE i \in DOMAIN scores :
        /\ \A j \in DOMAIN scores : scores[j] <= scores[i]
        /\ \A j \in DOMAIN scores : scores[j] = scores[i] => i <= j

RECURSIVE Pow2(_)
Pow2(k) == IF k = 0 THEN 1 ELSE 2 * Pow2(k - 1)

\* Fitness values are Python floats.  A float is modelled with a
\* significand of MantissaBits bits instead of 53: every operation returns
\* the exact result rounded to that many significant bits, ties to even.
\* A fitness is a whole number of units; an average is a whole number of
\* AvgScale-ths of a unit.
MantissaBits == 3

AvgScale == Pow2(MantissaBits + 2)

\* num / den rounded to MantissaBits significant bits, for a whole number
\* num / den or one of at least MantissaBits bits before the point
RoundSig(num, den) ==
    LET k  == CHOOSE j \in 0..16 :
                 /\ num \div (den * Pow2(j)) < Pow2(MantissaBits)
                 /\ \A i \in 0..(j - 1) : num \div (den * Pow2(i)) >= Pow2(MantissaBits)
        d  == den * Pow2(k)
        q  == num \div d
        r  == num % d
        up == 2 * r > d \/ (2 * r = d /\ q % 2 = 1)
    IN  (IF up THEN q + 1 ELSE q) * Pow2(k)

\* sum(fitness_scores): float additions from the left, starting at 0
RECURSIVE FloatSum(_)
FloatSum(s) ==
    IF s = <<>> THEN 0
    ELSE RoundSig(FloatSum(SubSeq(s, 1, Len(s) - 1)) + s[Len(s)], 1)

\* sum(fitness_scores) / len(fitness_scores), in AvgScale-ths
FloatAvg(s) == RoundSig(FloatSum(s) * AvgScale, Len(s))

_calculate_generation_stats(gen, inds, rs) ==
    LET scores == [i \in DOMAIN rs |-> rs[i].fitness]
    IN  [generation |-> gen, population_size |-> Len(inds),
         avg_fitness |-> FloatAvg(scores),
         max_fitness |-> scores[BestIdx(scores)],
         min_fitness |-> scores[CHOOSE i \in DOMAIN scores :
                                   \A j \in DOMAIN scores : scores[i] <= scores[j]],
         best_individual |-> rs[BestIdx(scores)].individual]

\* run(): the rest of one pass of the generation loop, after every
\* evaluation of the population has returned
EndGeneration ==
    LET rs     == OrderedResults
        scores == [i \in DOMAIN rs |-> rs[i].fitness]
        cur    == rs[BestIdx(scores)]
    IN  /\ phase = "evaluating"
        /\ next_idx > Len(population)
        /\ Len(results) = Len(population)
        /\ \A w \in Workers : workers[w].pc = "idle"
        /\ IF rs = <<>>
           THEN \* GAException("No fitness scores available") leaves run()
                /\ phase' = "aborted"
                /\ UNCHANGED <<population, generation, next_idx, results, completed,
                               n_results, history, best>>
           ELSE /\ n_results' = n_results + Len(rs)
                /\ history' = Append(history, _calculate_generation_stats(generation, population, rs))
                /\ best' = IF cur.fitness > best.fitness
                           THEN [individual |-> cur.individual, fitness |-> cur.fitness]
                           ELSE best
                /\ results' = <<>>
                /\ completed' = <<>>
                /\ IF generation < params.generations - 1
                   THEN /\ population' \in evolve(params, population, scores)
                        /\ generation' = generation + 1
                        /\ next_idx' = 1
                        /\ phase' = phase
                   ELSE /\ phase' = "apply_best"
                        /\ UNCHANGED <<population, generation, next_idx>>
        /\ UNCHANGED <<gwVars, parallel, params, workers, cache>>
        /\ UNCHANGED auxVars

\* Mutant of final_apply: the final apply takes a rollback snapshot.
final_apply_saving(d, last, dry, ind, fl) ==
    apply_configuration(d, last, dry, ind, TRUE, fl)

\* run(): apply_configuration(best_individual, save_for_rollback=False)
final_apply(d, last, dry, ind, fl) ==
    apply_configuration(d, last, dry, ind, FALSE, fl)

\* run(): the best individual is applied, without a snapshot; a failure is
\* logged and run() returns the individual all the same
ApplyBest(fl) ==
    LET r == final_apply(dep, last_config, dry_run, best.individual, fl)
    IN  /\ phase = "apply_best"
        /\ IF best.individual = None
           THEN /\ phase' = "done"
                /\ UNCHANGED <<dep, last_config>>
           ELSE /\ dep' = r.dep
                /\ last_config' = r.last
                /\ phase' = IF r.exc = "ok" \/ Catches("run", r.exc)
                            THEN "done" ELSE "aborted"
        /\ UNCHANGED <<status, stale, dry_run, lastCall, ncalls, wait, parallel,
                       params, population, generation, next_idx, workers, results, completed,
                       n_results, history, cache, best>>
        /\ UNCHANGED auxVars

\* The deployment the runs start from
RunDeployment == Deployment(TRUE, 2, Q500m, Q256Mi, Q500m, Q256Mi)

InitRun(par, p) ==
    /\ dep = RunDeployment
    /\ status = NoStatus
    /\ stale = FALSE
    /\ last_config = None
    /\ dry_run = FALSE
    /\ lastCall = NoCall
    /\ ncalls = 0
    /\ wait = NoWait
    /\ parallel = par
    /\ params = p
    /\ population \in create_initial_population(p)
    /\ generation = 0
    /\ next_idx = 1
    /\ workers = [w \in Workers |-> IdleWorker]
    /\ results = <<>>
    /\ completed = <<>>
    /\ n_results = 0
    /\ history = <<>>
    /\ cache = <<>>
    /\ best = [individual |-> None, fitness |-> NegInf]
    /\ phase = "evaluating"
    /\ NoAux

Next ==
    \/ \E w \in Workers : StartEval(w)
    \/ \E w \in Workers, expired \in BOOLEAN : CacheLookup(w, expired)
    \/ \E w \in Workers, fl \in Flags : EvalApply(w, fl)
    \/ \E w \in Workers, ok \in BOOLEAN : EvalRollout(w, ok)
    \/ \E w \in Workers, out \in LoadOutcomes : EvalLoad(w, out)
    \/ \E w \in Workers, out \in TelemetryOutcomes : EvalTelemetry(w, out)
    \/ \E w \in Workers : EvalFitness(w)
    \/ EndGeneration
    \/ \E fl \in Flags : ApplyBest(fl)

\* run() with parallel_evaluations = False.  Replica counts reach past the
\* gateway's maximum of 100: a population can hold an individual the
\* gateway rejects.
Spec == InitRun(FALSE, GAParams(<<100, 101>>)) /\ [][Next]_vars

\* run() with parallel_evaluations = True, over two individuals the gateway
\* accepts
SpecPar == InitRun(TRUE, GAParams(<<99, 100>>)) /\ [][Next]_vars

(***************************************************************************)
(* Telemetry gateway (src/integrations/prometheus_client.py)               *)
(*                                                                         *)
(* One query_instant call at a time, as the evaluator makes them.  A call  *)
(* is a sequence of attempts; the sleep that follows a failed attempt is   *)
(* part of that attempt's step.  Time is in whole seconds.                 *)
(***************************************************************************)
MaxAttempts == 3
MaxQueries == 2
MaxTime == 6

\* PrometheusClient._cache_ttl
TelemetryCacheTtl == 5

\* query_instant's default argument as the semantic methods leave it
DefaultValue == 0

\* The semantic methods explored; each builds its own query string and
\* returns query_instant(query).  The other four have the same body.
Methods == { "get_cpu_usage", "get_error_rate" }

\* What custom_query can hand back: no sample, a sample with a numeric
\* value, a sample whose value is not a number, an entry without "value"
QueryResults ==
    { [kind |-> "empty"], [kind |-> "value", v |-> 3], [kind |-> "garbled"],
      [kind |-> "novalue"] }

\* Mutant of Backoff: the delay is not doubled.
BackoffConstant(d, k) == d

\* _retry_query: the sleep after failed attempt number k (from 0)
Backoff(d, k) == d * Pow2(k)

Returned(v) == [kind |-> "return", v |-> v]
Raised(exc) == [kind |-> "raise", exc |-> exc]

\* query_instant, given what _query_with_cache returned or raised
query_instant_result(res, default) ==
    IF res.kind = "PrometheusError" THEN Raised("PrometheusError")
    ELSE IF res.kind = "value" THEN Returned(res.v)
    ELSE Returned(default)

NoQuery == [pc |-> "idle", n |-> 0]

\* Mutant of CachedValid: an entry of exactly the ttl is still used.
CachedValidInclusive(c, q, t) ==
    q \in DOMAIN c /\ t - c[q].timestamp <= TelemetryCacheTtl

\* _query_with_cache: query in self._cache and
\* time.time() - timestamp < self._cache_ttl
CachedValid(c, q, t) ==
    q \in DOMAIN c /\ t - c[q].timestamp < TelemetryCacheTtl

\* a semantic method is called: query_instant -> _query_with_cache
QueryStart(m, use_cache) ==
    LET hit == use_cache /\ CachedValid(pcache, m, now)
        call == [pc |-> "retry", n |-> pq.n + 1, query |-> m, use_cache |-> use_cache,
                 attempt |-> 0, fails |-> 0, waits |-> <<>>, hit |-> hit,
                 outcome |-> None]
    IN  /\ pq.pc \in { "idle", "done" }
        /\ pq.n < MaxQueries
        /\ IF hit
           THEN pq' = [call EXCEPT !.pc = "done",
                          !.outcome = query_instant_result(pcache[m].result, DefaultValue)]
           ELSE IF pconfig.retry_attempts = 0
           THEN pq' = [call EXCEPT !.pc = "done",
                          !.outcome = query_instant_result([kind |-> "PrometheusError"],
                                                           DefaultValue)]
           ELSE pq' = call
        /\ UNCHANGED <<now, pconfig, pclient, pcache>>
        /\ UNCHANGED <<gwVars, drvVars, ecache, lastGet, extVars>>

\* one pass of the loop of _retry_query: func() returns res after dur
\* seconds, or raises (res.kind = "error")
Attempt(res, dur) ==
    LET last == pq.attempt = pconfig.retry_attempts - 1
        w    == Backoff(pconfig.retry_delay, pq.attempt)
    IN  /\ pq.pc = "retry"
        /\ IF res.kind # "error"
           THEN /\ now' = now + dur
                /\ pclient' = TRUE
                /\ pcache' = IF pq.use_cache
                             THEN [q \in DOMAIN pcache \cup { pq.query } |->
                                     IF q = pq.query
                                     THEN [timestamp |-> now + dur, result |-> res]
                                     ELSE pcache[q]]
                             ELSE pcache
                /\ pq' = [pq EXCEPT !.pc = "done", !.attempt = @ + 1,
                             !.outcome = query_instant_result(res, DefaultValue)]
           ELSE /\ pclient' \in (IF pclient THEN { TRUE } ELSE BOOLEAN)
                /\ pcache' = pcache
                /\ IF last
                   THEN /\ now' = now + dur
                        /\ pq' = [pq EXCEPT !.pc = "done", !.attempt = @ + 1,
                                     !.fails = @ + 1,
                                     !.outcome = query_instant_result(
                                         [kind |-> "PrometheusError"], DefaultValue)]
                   ELSE /\ now' = now + dur + w
                        /\ pq' = [pq EXCEPT !.attempt = @ + 1, !.fails = @ + 1,
                                     !.waits = Append(@, w)]
        /\ UNCHANGED pconfig
        /\ UNCHANGED <<gwVars, drvVars, ecache, lastGet, extVars>>

\* time passes between two calls
Tick ==
    /\ pq.pc \in { "idle", "done" }
    /\ now < MaxTime
    /\ now' = now + 1
    /\ UNCHANGED <<pconfig, pclient, pcache, pq>>
    /\ UNCHANGED <<gwVars, drvVars, ecache, lastGet, extVars>>

AttemptDurations == { 0, 1 }

InitProm ==
    /\ dep = RunDeployment
    /\ status = NoStatus
    /\ stale = FALSE
    /\ last_config = None
    /\ dry_run = FALSE
    /\ lastCall = NoCall
    /\ ncalls = 0
    /\ wait = NoWait
    /\ NoDriver
    /\ NoExt
    /\ now = 0
    /\ ecache = <<>>
    /\ lastGet = None
    /\ pconfig \in [retry_attempts : 0..MaxAttempts, retry_delay : { 1, 2 }]
    /\ pclient = FALSE
    /\ pcache = <<>>
    /\ pq = NoQuery

NextProm ==
    \/ \E m \in Methods, use_cache \in BOOLEAN : QueryStart(m, use_cache)
    \/ \E res \in QueryResults \cup { [kind |-> "error"] }, dur \in AttemptDurations :
           Attempt(res, dur)
    \/ Tick

SpecProm ==
    InitProm /\ [][NextProm]_vars

(***************************************************************************)
(* Evaluation cache with its clock (src/ga/cache.py)                       *)
(*                                                                         *)
(* The driver above takes the age of an entry as an input (expired); here  *)
(* the cache is driven directly and entries carry their timestamps.        *)
(***************************************************************************)
\* EvaluationCache(ttl = 3600.0)
CacheTtl == 3600

MaxCacheOps == 4

\* The steps by which the clock is advanced between two calls
Advances == { 1, CacheTtl - 1, CacheTtl }

\* Mutant of Fresh: an entry exactly ttl old still counts as valid.
FreshInclusive(t, timestamp, ttl) == t - timestamp <= ttl

\* EvaluationCache.get: `time.time() - timestamp < self.ttl`
Fresh(t, timestamp, ttl) == t - timestamp < ttl

\* EvaluationCache.get at time t: the value returned and the cache left
cache_get(c, ind, t, ttl) ==
    LET key == _get_key(ind)
    IN  IF key \notin DOMAIN c THEN [ret |-> None, cache |-> c]
        ELSE IF Fresh(t, c[key].timestamp, ttl)
        THEN [ret |-> c[key].result, cache |-> c]
        ELSE [ret |-> None, cache |-> [k \in DOMAIN c \ { key } |-> c[k]]]

\* EvaluationCache.put at time t
cache_put(c, ind, res, t) ==
    [k \in DOMAIN c \cup { _get_key(ind) } |->
        IF k = _get_key(ind) THEN [timestamp |-> t, result |-> res] ELSE c[k]]

\* EvaluationCache.cleanup_expired at time t
cleanup_expired(c, t, ttl) ==
    [k \in { x \in DOMAIN c : ~(t - c[x].timestamp >= ttl) } |-> c[k]]

\* A cache call: its arguments, the time it was made and what it returned
CacheCall(op, ind, res, t, ret, n) ==
    [op |-> op, ind |-> ind, res |-> res, at |-> t, ret |-> ret, n |-> n]

NoCacheCall == CacheCall("none", None, None, 0, None, 0)

CacheGet(ind) ==
    LET g == cache_get(ecache, ind, now, CacheTtl)
    IN  /\ lastGet.n < MaxCacheOps
        /\ ecache' = g.cache
        /\ lastGet' = CacheCall("get", ind, None, now, g.ret, lastGet.n + 1)
        /\ now' = now
        /\ UNCHANGED <<gwVars, drvVars, pconfig, pclient, pcache, pq, extVars>>

CachePutCall(ind, res) ==
    /\ lastGet.n < MaxCacheOps
    /\ ecache' = cache_put(ecache, ind, res, now)
    /\ lastGet' = CacheCall("put", ind, res, now, None, lastGet.n + 1)
    /\ now' = now
    /\ UNCHANGED <<gwVars, drvVars, pconfig, pclient, pcache, pq, extVars>>

CacheClear ==
    /\ lastGet.n < MaxCacheOps
    /\ ecache' = <<>>
    /\ lastGet' = CacheCall("clear", None, None, now, None, lastGet.n + 1)
    /\ now' = now
    /\ UNCHANGED <<gwVars, drvVars, pconfig, pclient, pcache, pq, extVars>>

CacheCleanup ==
    /\ lastGet.n < MaxCacheOps
    /\ ecache' = cleanup_expired(ecache, now, CacheTtl)
    /\ lastGet' = CacheCall("cleanup_expired", None, None, now,
                            Cardinality(DOMAIN ecache) - Cardinality(DOMAIN ecache'),
                            lastGet.n + 1)
    /\ now' = now
    /\ UNCHANGED <<gwVars, drvVars, pconfig, pclient, pcache, pq, extVars>>

\* time passes between two calls
Advance(dt) ==
    /\ lastGet.n < MaxCacheOps
    /\ now' = now + dt
    /\ lastGet' = CacheCall("none", None, None, now, None, lastGet.n + 1)
    /\ ecache' = ecache
    /\ UNCHANGED <<gwVars, drvVars, pconfig, pclient, pcache, pq, extVars>>

\* Individuals given to the cache: two with the same identity triple, one
\* of them naming its container, and a third with another triple
CacheInds ==
    { Individual(2, 500, 256, NoName), Individual(2, 500, 256, ContainerName),
      Individual(3, 500, 256, NoName) }

\* Results given to put: the individual's evaluation with fitness f
CacheResults(ind) == { Result(ind, f, "measured", "", <<>>, "") : f \in { 1, 2 } }

InitCache ==
    /\ dep = RunDeployment
    /\ status = NoStatus
    /\ stale = FALSE
    /\ last_config = None
    /\ dry_run = FALSE
    /\ lastCall = NoCall
    /\ ncalls = 0
    /\ wait = NoWait
    /\ NoDriver
    /\ NoExt
    /\ now = 0
    /\ ecache = <<>>
    /\ lastGet = NoCacheCall
    /\ pconfig = None
    /\ pclient = FALSE
    /\ pcache = <<>>
    /\ pq = None

NextCache ==
    \/ \E ind \in CacheInds : CacheGet(ind)
    \/ \E ind \in CacheInds : \E res \in CacheResults(ind) : CachePutCall(ind, res)
    \/ CacheClear
    \/ CacheCleanup
    \/ \E dt \in Advances : Advance(dt)

SpecCache ==
    InitCache /\ [][NextCache]_vars

(***************************************************************************)
(* The generation loop over drawn fitness scores                           *)
(* (src/ga/optimizer.py, run; src/ga/population.py, evolve)                *)
(*                                                                         *)
(* The loop of run() reads of an evaluated population only the list of     *)
(* results.  Here _evaluate_population is one step that returns a list of  *)
(* results with any fitness scores, so that evolve() is applied to every   *)
(* population, score list and elitism count within the bounds.             *)
(***************************************************************************)
MaxFitness == 2

\* GAParameters with every population size up to PopulationSize and every
\* elitism count from 0 to past the population size
EvolveParams ==
    { [GAParams(<<1, 2>>) EXCEPT !.population_size = n, !.elitism_count = e] :
        n \in 1..PopulationSize, e \in 0..(PopulationSize + 1) }

\* The lists of fitness scores a population can be given
FitnessLists == UNION { [1..n -> 0..MaxFitness] : n \in 1..PopulationSize }

\* _evaluate_population returns one result per individual, in the order of
\* the population; fs: the fitness scores
EvaluatePopulation(fs) ==
    /\ phase = "evaluating"
    /\ Len(fs) = Len(population)
    /\ next_idx = 1
    /\ results = <<>>
    /\ results' = [i \in DOMAIN population |->
                     Result(population[i], fs[i], "measured", "", <<>>, "")]
    /\ completed' = [i \in DOMAIN population |-> i]
    /\ next_idx' = Len(population) + 1
    /\ UNCHANGED <<gwVars, parallel, params, population, generation, workers,
                   n_results, history, cache, best, phase>>
    /\ UNCHANGED auxVars

InitEvolve == \E p \in EvolveParams : InitRun(FALSE, p)

NextEvolve ==
    \/ \E fs \in FitnessLists : EvaluatePopulation(fs)
    \/ EndGeneration
    \/ \E fl \in Flags : ApplyBest(fl)

\* run() over every GAParameters of EvolveParams
SpecEvolve == InitEvolve /\ [][NextEvolve]_vars

(***************************************************************************)
(* The population manager called on its own (src/ga/population.py)         *)
(*                                                                         *)
(* Each operation of PopulationManager is applied to drawn inputs; the     *)
(* value it returns is kept in produced, and evolve() replaces the         *)
(* population.  The search bounds are drawn from PopParams: one with a     *)
(* replica range wide enough for a replica mutation, one with a memory     *)
(* range wide enough for a memory mutation, and cpu ranges whose ends are  *)
(* and are not multiples of 0.01.                                          *)
(***************************************************************************)
PopParams ==
    { [GAParams(<<2, 2>>) EXCEPT !.replicas_bounds = b[1],
                                 !.cpu_limit_bounds = b[2],
                                 !.memory_limit_bounds = b[3],
                                 !.mutation_rate = b[4]] :
        b \in { << <<1, 11>>, <<500, 500>>, <<256, 256>>, 20 >>,
                << <<1, 11>>, <<500, 500>>, <<256, 256>>, 100 >>,
                << <<2, 2>>, <<100, 120>>, <<256, 256>>, 20 >>,
                << <<2, 2>>, <<100, 146>>, <<256, 256>>, 20 >>,
                << <<2, 2>>, <<500, 500>>, <<128, 138>>, 20 >> } }

\* Individuals given to validate_individual: inside, at and outside the bounds
WideInds(p) ==
    { Individual(r, c, m, NoName) :
        r \in { p.replicas_bounds[1] - 1, p.replicas_bounds[1], p.replicas_bounds[2] + 1 },
        c \in { p.cpu_limit_bounds[1] - 10, p.cpu_limit_bounds[1] + 3,
                p.cpu_limit_bounds[2], p.cpu_limit_bounds[2] + 10 },
        m \in { p.memory_limit_bounds[1] - 1, p.memory_limit_bounds[2],
                p.memory_limit_bounds[2] + 1 } }

\* Operation op returned individual ind
Produced(op, ind) == [op |-> op, ind |-> ind]

PopCreate ==
    /\ phase = "population"
    /\ \E x \in create_random_individual(params) : produced' = Produced("create", x)
    /\ UNCHANGED <<gwVars, drvVars, now, ecache, lastGet, pconfig, pclient, pcache, pq,
                   concVars, loadVars>>

PopValidate(ind) ==
    /\ phase = "population"
    /\ ind \in WideInds(params)
    /\ produced' = Produced("validate", validate_individual(params, ind))
    /\ UNCHANGED <<gwVars, drvVars, now, ecache, lastGet, pconfig, pclient, pcache, pq,
                   concVars, loadVars>>

PopMutate(i) ==
    /\ phase = "population"
    /\ i \in DOMAIN population
    /\ \E x \in mutate(params, population[i]) : produced' = Produced("mutate", x)
    /\ UNCHANGED <<gwVars, drvVars, now, ecache, lastGet, pconfig, pclient, pcache, pq,
                   concVars, loadVars>>

PopCrossover(i, j) ==
    /\ phase = "population"
    /\ i \in DOMAIN population
    /\ j \in DOMAIN population
    /\ \E x \in crossover(params, population[i], population[j]) :
          produced' = Produced("crossover", x)
    /\ UNCHANGED <<gwVars, drvVars, now, ecache, lastGet, pconfig, pclient, pcache, pq,
                   concVars, loadVars>>

\* evolve(population, fitness_scores), at most Generations - 1 times
PopEvolve(fs) ==
    /\ phase = "population"
    /\ Len(fs) = Len(population)
    /\ generation < Generations - 1
    /\ population' \in evolve(params, population, fs)
    /\ generation' = generation + 1
    /\ UNCHANGED <<gwVars, parallel, params, next_idx, workers, results, completed,
                   n_results, history, cache, best, phase>>
    /\ UNCHANGED auxVars

InitPop ==
    /\ dep = RunDeployment
    /\ status = NoStatus
    /\ stale = FALSE
    /\ last_config = None
    /\ dry_run = FALSE
    /\ lastCall = NoCall
    /\ ncalls = 0
    /\ wait = NoWait
    /\ parallel = FALSE
    /\ params \in PopParams
    /\ population \in create_initial_population(params)
    /\ generation = 0
    /\ next_idx = 1
    /\ workers = <<>>
    /\ results = <<>>
    /\ completed = <<>>
    /\ n_results = 0
    /\ history = <<>>
    /\ cache = <<>>
    /\ best = None
    /\ phase = "population"
    /\ NoAux

NextPop ==
    \/ PopCreate
    \/ \E p \in PopParams : \E ind \in WideInds(p) : PopValidate(ind)
    \/ \E i \in 1..PopulationSize : PopMutate(i)
    \/ \E i, j \in 1..PopulationSize : PopCrossover(i, j)
    \/ \E fs \in FitnessLists : PopEvolve(fs)

SpecPop == InitPop /\ [][NextPop]_vars

(***************************************************************************)
(* evolve() over populations with a survivor pool of more than one         *)
(* (src/ga/population.py, evolve)                                          *)
(*                                                                         *)
(* evolve() is applied once to every initial population of SurvSize        *)
(* individuals and every list of scores 0 .. SurvScore, with both rates 0  *)
(* and with the default rates.  One search space has three replica counts  *)
(* (a recombination of 1 and 3 gives 2), the other two cpu limits (a cpu   *)
(* mutation reaches both).  produced keeps the arguments of the call.      *)
(***************************************************************************)
SurvSize == 4
SurvScore == 1

SurvParams ==
    { [GAParams(b[1]) EXCEPT !.population_size = SurvSize,
                             !.cpu_limit_bounds = b[2],
                             !.crossover_rate = r[1],
                             !.mutation_rate = r[2]] :
        b \in { << <<1, 3>>, <<500, 500>> >>, << <<2, 2>>, <<100, 110>> >> },
        r \in { <<0, 0>>, <<80, 20>> } }

SurvScores == [1..SurvSize -> 0..SurvScore]

\* evolve(population, fitness_scores) called with the drawn population
SurvEvolve(fs) ==
    /\ phase = "population"
    /\ produced = None
    /\ population' \in evolve(params, population, fs)
    /\ generation' = generation + 1
    /\ produced' = [op |-> "evolve", individuals |-> population, fitness_scores |-> fs]
    /\ UNCHANGED <<gwVars, parallel, params, next_idx, workers, results, completed,
                   n_results, history, cache, best, phase>>
    /\ UNCHANGED <<now, ecache, lastGet, pconfig, pclient, pcache, pq, concVars, loadVars>>

InitSurv ==
    /\ dep = RunDeployment
    /\ status = NoStatus
    /\ stale = FALSE
    /\ last_config = None
    /\ dry_run = FALSE
    /\ lastCall = NoCall
    /\ ncalls = 0
    /\ wait = NoWait
    /\ parallel = FALSE
    /\ params \in SurvParams
    /\ population \in create_initial_population(params)
    /\ generation = 0
    /\ next_idx = 1
    /\ workers = <<>>
    /\ results = <<>>
    /\ completed = <<>>
    /\ n_results = 0
    /\ history = <<>>
    /\ cache = <<>>
    /\ best = None
    /\ phase = "population"
    /\ NoAux

NextSurv == \E fs \in SurvScores : SurvEvolve(fs)

SpecSurv == InitSurv /\ [][NextSurv]_vars

(***************************************************************************)
(* mutate, crossover and evolve with their arguments kept                  *)
(* (src/ga/population.py; src/ga/config.py, GAParameters)                  *)
(*                                                                         *)
(* Each operation is applied to the drawn initial population; produced     *)
(* keeps the arguments, the attribute mutate chose and the value returned. *)
(* The search spaces: the default replica bounds (1, 6); replica bounds    *)
(* with a range of 10; memory bounds with a range of 10; two cpu limits.   *)
(***************************************************************************)
\* GAParameters.replicas_bounds
DefaultReplicasBounds == <<1, 6>>

MutParams ==
    { [GAParams(b[1]) EXCEPT !.cpu_limit_bounds = b[2],
                             !.memory_limit_bounds = b[3],
                             !.crossover_rate = r[1],
                             !.mutation_rate = r[2]] :
        b \in { << DefaultReplicasBounds, <<500, 500>>, <<256, 256>> >>,
                << <<1, 11>>, <<500, 500>>, <<256, 256>> >>,
                << <<2, 2>>, <<500, 500>>, <<128, 138>> >>,
                << <<2, 2>>, <<100, 110>>, <<256, 256>> >> },
        r \in { <<0, 100>>, <<80, 20>> } }

\* mutate(individual) returned ind after choosing param ("none": the copy)
Mutated(param, individual, ind) ==
    [op |-> "mutate", param |-> param, individual |-> individual, ind |-> ind]

MutMutate(i, param) ==
    /\ phase = "population"
    /\ generation = 0
    /\ i \in DOMAIN population
    /\ params.mutation_rate > 0
    /\ \E x \in mutate_param(params, population[i], param) :
          produced' = Mutated(param, population[i], x)
    /\ UNCHANGED <<gwVars, drvVars, now, ecache, lastGet, pconfig, pclient, pcache, pq,
                   concVars, loadVars>>

\* mutate(individual) with random() > mutation_rate
MutCopy(i) ==
    /\ phase = "population"
    /\ generation = 0
    /\ i \in DOMAIN population
    /\ params.mutation_rate < 100
    /\ produced' = Mutated("none", population[i], population[i])
    /\ UNCHANGED <<gwVars, drvVars, now, ecache, lastGet, pconfig, pclient, pcache, pq,
                   concVars, loadVars>>

MutCrossover(i, j) ==
    /\ phase = "population"
    /\ generation = 0
    /\ i \in DOMAIN population
    /\ j \in DOMAIN population
    /\ \E x \in crossover(params, population[i], population[j]) :
          produced' = [op |-> "crossover", individual |-> population[i],
                       other |-> population[j], ind |-> x]
    /\ UNCHANGED <<gwVars, drvVars, now, ecache, lastGet, pconfig, pclient, pcache, pq,
                   concVars, loadVars>>

MutEvolve(fs) ==
    /\ phase = "population"
    /\ generation = 0
    /\ Len(fs) = Len(population)
    /\ population' \in evolve(params, population, fs)
    /\ generation' = generation + 1
    /\ produced' = [op |-> "evolve", individuals |-> population, fitness_scores |-> fs]
    /\ UNCHANGED <<gwVars, parallel, params, next_idx, workers, results, completed,
                   n_results, history, cache, best, phase>>
    /\ UNCHANGED <<now, ecache, lastGet, pconfig, pclient, pcache, pq, concVars, loadVars>>

InitMut ==
    /\ dep = RunDeployment
    /\ status = NoStatus
    /\ stale = FALSE
    /\ last_config = None
    /\ dry_run = FALSE
    /\ lastCall = NoCall
    /\ ncalls = 0
    /\ wait = NoWait
    /\ parallel = FALSE
    /\ params \in MutParams
    /\ population \in create_initial_population(params)
    /\ generation = 0
    /\ next_idx = 1
    /\ workers = <<>>
    /\ results = <<>>
    /\ completed = <<>>
    /\ n_results = 0
    /\ history = <<>>
    /\ cache = <<>>
    /\ best = None
    /\ phase = "population"
    /\ NoAux

NextMut ==
    \/ \E i \in 1..PopulationSize, param \in MutableParams : MutMutate(i, param)
    \/ \E i \in 1..PopulationSize : MutCopy(i)
    \/ \E i, j \in 1..PopulationSize : MutCrossover(i, j)
    \/ \E fs \in FitnessLists : MutEvolve(fs)

SpecMut == InitMut /\ [][NextMut]_vars

(***************************************************************************)
(* One generation of run() over drawn float fitness scores                 *)
(* (src/ga/optimizer.py, run and _calculate_generation_stats)              *)
(*                                                                         *)
(* As in SpecEvolve, _evaluate_population is one step.  The run has one    *)
(* generation of 1 .. MaxResults individuals, and the fitness scores are   *)
(* drawn from the smallest and the largest floats of the modelled          *)
(* precision, so that sum() and the division round.                        *)
(***************************************************************************)
MaxResults == 3

FloatValues == { 0, 1, Pow2(MantissaBits) - 2, Pow2(MantissaBits) - 1 }

FloatLists == UNION { [1..n -> FloatValues] : n \in 1..MaxResults }

StatsParams ==
    { [GAParams(<<2, 3>>) EXCEPT !.population_size = n, !.generations = 1] :
        n \in 1..MaxResults }

InitStats == \E p \in StatsParams : InitRun(FALSE, p)

NextStats ==
    \/ \E fs \in FloatLists : EvaluatePopulation(fs)
    \/ EndGeneration
    \/ \E fl \in Flags : ApplyBest(fl)

SpecStats == InitStats /\ [][NextStats]_vars

(***************************************************************************)
(* EvaluationCache shared by the evaluating threads                        *)
(*                                                                         *)
(* With parallel_evaluations the pool's threads call _evaluate_individual  *)
(* at the same time, and each starts with self.cache.get(individual) and   *)
(* ends with self.cache.put(individual, result) on the one cache of the    *)
(* optimizer.  EvaluationCache holds no lock, so a thread can be           *)
(* suspended between any two statements of get(); the statements are the   *)
(* steps here.  A dict lookup, store or delete is one step.                *)
(***************************************************************************)
NumThreads == 2

MaxThreadCalls == 2

MaxExpiries == 1

Threads == 1..NumThreads

\* A thread of the pool: where it stands in get(), the locals of get()
\* (timestamp, result), what the call returned and the exception raised
Thread(pc, ind, timestamp, result, ret, err, calls) ==
    [pc |-> pc, ind |-> ind, timestamp |-> timestamp, result |-> result,
     ret |-> ret, err |-> err, calls |-> calls]

IdleThread == Thread("idle", None, 0, None, None, "", 0)

\* Individuals evaluated by the threads
ThreadInds == { Individual(2, 500, 256, NoName), Individual(3, 500, 256, NoName) }

\* get(individual) is entered: key = self._get_key(individual)
GetEnter(t, ind) ==
    /\ thr[t].pc \in { "idle", "returned" }
    /\ thr[t].calls < MaxThreadCalls
    /\ thr' = [thr EXCEPT ![t] = Thread("contains", ind, 0, None, None, "",
                                        thr[t].calls + 1)]
    /\ UNCHANGED <<gwVars, drvVars, now, ecache, lastGet, pconfig, pclient, pcache, pq,
                   produced, loadVars>>

\* `if key in self.cache:` and, when it is not, `return None`
GetContains(t) ==
    /\ thr[t].pc = "contains"
    /\ thr' = [thr EXCEPT ![t].pc =
                  IF _get_key(thr[t].ind) \in DOMAIN ecache THEN "read" ELSE "returned"]
    /\ UNCHANGED <<gwVars, drvVars, now, ecache, lastGet, pconfig, pclient, pcache, pq,
                   produced, loadVars>>

\* `timestamp, result = self.cache[key]`: KeyError when the key is gone
GetRead(t) ==
    LET key == _get_key(thr[t].ind)
    IN  /\ thr[t].pc = "read"
        /\ thr' = [thr EXCEPT ![t] =
              IF key \in DOMAIN ecache
              THEN [@ EXCEPT !.pc = "test", !.timestamp = ecache[key].timestamp,
                             !.result = ecache[key].result]
              ELSE [@ EXCEPT !.pc = "raised", !.err = "KeyError"]]
        /\ UNCHANGED <<gwVars, drvVars, now, ecache, lastGet, pconfig, pclient, pcache,
                       pq, produced, loadVars>>

\* `if time.time() - timestamp < self.ttl: return result`
GetTest(t) ==
    /\ thr[t].pc = "test"
    /\ thr' = [thr EXCEPT ![t] =
          IF Fresh(now, thr[t].timestamp, CacheTtl)
          THEN [@ EXCEPT !.pc = "returned", !.ret = thr[t].result]
          ELSE [@ EXCEPT !.pc = "del"]]
    /\ UNCHANGED <<gwVars, drvVars, now, ecache, lastGet, pconfig, pclient, pcache, pq,
                   produced, loadVars>>

\* `del self.cache[key]`, then `return None`: KeyError when the key is gone
GetDel(t) ==
    LET key == _get_key(thr[t].ind)
    IN  /\ thr[t].pc = "del"
        /\ IF key \in DOMAIN ecache
           THEN /\ ecache' = [k \in DOMAIN ecache \ { key } |-> ecache[k]]
                /\ thr' = [thr EXCEPT ![t].pc = "returned"]
           ELSE /\ ecache' = ecache
                /\ thr' = [thr EXCEPT ![t] = [@ EXCEPT !.pc = "raised",
                                                       !.err = "KeyError"]]
        /\ UNCHANGED <<gwVars, drvVars, now, lastGet, pconfig, pclient, pcache, pq,
                       produced, loadVars>>

\* put(individual, result): one store into the dict
ThreadPut(t, ind, res) ==
    /\ thr[t].pc \in { "idle", "returned" }
    /\ thr[t].calls < MaxThreadCalls
    /\ ecache' = cache_put(ecache, ind, res, now)
    /\ thr' = [thr EXCEPT ![t] = Thread("returned", ind, 0, None, None, "",
                                        thr[t].calls + 1)]
    /\ UNCHANGED <<gwVars, drvVars, now, lastGet, pconfig, pclient, pcache, pq,
                   produced, loadVars>>

\* the evaluations take time: a ttl passes
Expire ==
    /\ now < MaxExpiries * CacheTtl
    /\ now' = now + CacheTtl
    /\ UNCHANGED <<gwVars, drvVars, ecache, lastGet, pconfig, pclient, pcache, pq,
                   extVars>>

InitConc ==
    /\ dep = RunDeployment
    /\ status = NoStatus
    /\ stale = FALSE
    /\ last_config = None
    /\ dry_run = FALSE
    /\ lastCall = NoCall
    /\ ncalls = 0
    /\ wait = NoWait
    /\ NoDriver
    /\ produced = None
    /\ thr = [t \in Threads |-> IdleThread]
    /\ lt = None
    /\ lw = <<>>
    /\ now = 0
    /\ ecache = <<>>
    /\ lastGet = NoCacheCall
    /\ pconfig = None
    /\ pclient = FALSE
    /\ pcache = <<>>
    /\ pq = None

NextConc ==
    \/ \E t \in Threads : \E ind \in ThreadInds : GetEnter(t, ind)
    \/ \E t \in Threads : GetContains(t)
    \/ \E t \in Threads : GetRead(t)
    \/ \E t \in Threads : GetTest(t)
    \/ \E t \in Threads : GetDel(t)
    \/ \E t \in Threads : \E ind \in ThreadInds : \E res \in CacheResults(ind) :
          ThreadPut(t, ind, res)
    \/ Expire

SpecConc ==
    InitConc /\ [][NextConc]_vars

(***************************************************************************)
(* LoadTester.run                                                          *)
(*                                                                         *)
(* run() starts num_workers threads on worker(); they share the counters   *)
(* success_count and fail_count and the list latencies, all three guarded  *)
(* by one Lock.  A worker's statements are its steps; `with lock:` blocks  *)
(* are entered when the lock is free, and `count += 1` under the lock is a *)
(* read followed by a write.  The clock now counts whole seconds since     *)
(* the construction of the tester.  Requests are answered by the target    *)
(* with any status, or fail with an exception.                             *)
(***************************************************************************)
MaxDuration == 1

MaxConcurrency == 2

MaxRequests == 2

\* An optional argument: <<>> when it is not given, <<v>> when it is v
NoArg == <<>>

\* Python's `a or b` for an optional integer a: b when a is None or 0
PyOr(a, b) == IF a # NoArg /\ a[1] # 0 THEN a[1] ELSE b

\* A quotient of two integers, kept as the pair it is computed from
Ratio(n, d) == <<n, d>>

Zero == Ratio(0, 1)

\* LoadTestConfig
LoadTestConfig(duration, concurrency) ==
    [duration |-> duration, concurrency |-> concurrency]

\* WorkloadProfile
WorkloadProfile(base, max_c) == [base_concurrency |-> base, max_concurrency |-> max_c]

\* LoadTestResult and its defaults
LoadTestResult(success, fail, duration, latencies) ==
    [success |-> success, fail |-> fail, total |-> 0, avg_latency |-> Zero,
     min_latency |-> 0, max_latency |-> 0, p50_latency |-> 0, p95_latency |-> 0,
     p99_latency |-> 0, throughput |-> Zero, success_rate |-> Zero,
     duration |-> duration, latencies |-> latencies]

\* sorted(): insertion of x into the ascending sequence s
RECURSIVE Insert(_, _)
Insert(x, s) ==
    IF s = <<>> THEN <<x>>
    ELSE IF x <= Head(s) THEN <<x>> \o s
    ELSE <<Head(s)>> \o Insert(x, Tail(s))

\* Mutant of sorted: the pool is used in the order of arrival.
unsorted(s) == s

RECURSIVE sorted(_)
sorted(s) == IF s = <<>> THEN <<>> ELSE Insert(Head(s), sorted(Tail(s)))

RECURSIVE SumLatencies(_)
SumLatencies(s) == IF s = <<>> THEN 0 ELSE Head(s) + SumLatencies(Tail(s))

\* LoadTestResult._calculate_percentile, percentile in hundredths:
\* index = min(int(len * percentile), len - 1), counted from 0
_calculate_percentile(latencies, pct) ==
    IF latencies = <<>> THEN 0
    ELSE LET s == sorted(latencies)
             index == (Len(s) * pct) \div 100
         IN  s[(IF index < Len(s) - 1 THEN index ELSE Len(s) - 1) + 1]

\* LoadTestResult.finalize: nothing is computed when there is no latency
finalize(r) ==
    IF r.latencies = <<>> THEN r
    ELSE LET s == sorted(r.latencies)
             total == r.success + r.fail
         IN  [r EXCEPT !.avg_latency = Ratio(SumLatencies(s), Len(s)),
                       !.min_latency = s[1],
                       !.max_latency = s[Len(s)],
                       !.p50_latency = _calculate_percentile(r.latencies, 50),
                       !.p95_latency = _calculate_percentile(r.latencies, 95),
                       !.p99_latency = _calculate_percentile(r.latencies, 99),
                       !.total = total,
                       !.success_rate = IF total > 0 THEN Ratio(r.success, total) ELSE Zero,
                       !.throughput = IF r.duration > 0 THEN Ratio(total, r.duration)
                                      ELSE Zero]

\* What requests.get(url, timeout) gives: a response with a status code,
\* or an exception
Response(code) == [status_code |-> code, exc |-> ""]

Failure(exc) == [status_code |-> 0, exc |-> exc]

NoResponse == Response(0)

Responses ==
    { Response(200), Response(204), Response(500),
      Failure("Timeout"), Failure("ConnectionError") }

\* run(): the number of worker threads
num_workers(config, profile, concurrency) ==
    IF profile # None /\ ~(concurrency # NoArg /\ concurrency[1] # 0)
    THEN profile.max_concurrency
    ELSE PyOr(concurrency, config.concurrency)

\* The tester and the locals of its run(): requested is the duration
\* argument as it was passed
Tester(pc, config, requested, duration, start_time, end_time, n, lock, latencies, success_count, fail_count, result) ==
    [pc |-> pc, config |-> config, requested |-> requested, duration |-> duration,
     start_time |-> start_time, end_time |-> end_time, num_workers |-> n,
     lock |-> lock, latencies |-> latencies, success_count |-> success_count,
     fail_count |-> fail_count, result |-> result]

\* LoadTester(config), no run() made yet
NewTester(config) ==
    Tester("idle", config, NoArg, 0, 0, 0, 0, 0, <<>>, 0, 0,
           LoadTestResult(0, 0, 0, <<>>))

\* A worker thread: its position, its locals, the value of the counter it
\* read, and the requests it has issued and completed, the responses with
\* status 200 among them, and the times it has flushed its buffer
Worker(pc, worker_latencies, req_start, latency, response, count, issued, answered, ok, flushed) ==
    [pc |-> pc, worker_latencies |-> worker_latencies, req_start |-> req_start,
     latency |-> latency, response |-> response, count |-> count,
     issued |-> issued, completed |-> answered, ok |-> ok, flushed |-> flushed]

NewWorker == Worker("loop", <<>>, 0, 0, NoResponse, 0, 0, 0, 0, 0)

\* Mutant of LockFree: the lock is never waited for.
LockFreeAlways(lock) == TRUE

\* `with lock:` is entered when no thread holds the lock
LockFree(lock) == lock = 0

loadFrame ==
    <<gwVars, drvVars, ecache, lastGet, pconfig, pclient, pcache, pq, produced,
      concVars>>

\* run(url, duration, concurrency, profile) up to the start of the workers
LoadRun(duration, concurrency, profile) ==
    LET d == PyOr(duration, lt.config.duration)
        n == num_workers(lt.config, profile, concurrency)
    IN  /\ lt.pc = "idle"
        /\ lt' = Tester("running", lt.config, duration, d, now, now + d, n, 0,
                        <<>>, 0, 0, LoadTestResult(0, 0, 0, <<>>))
        /\ lw' = [w \in 1..n |-> NewWorker]
        /\ UNCHANGED <<now, loadFrame>>

\* `while time.time() < end_time:` and, inside, `req_start = time.time()`
\* and the sending of the request
WorkerLoop(w) ==
    /\ lt.pc = "running"
    /\ w \in DOMAIN lw
    /\ lw[w].pc = "loop"
    /\ now >= lt.end_time \/ lw[w].issued < MaxRequests
    /\ lw' = [lw EXCEPT ![w] =
          IF now < lt.end_time
          THEN [@ EXCEPT !.pc = "get", !.req_start = now, !.issued = @ + 1]
          ELSE [@ EXCEPT !.pc = "flush"]]
    /\ UNCHANGED <<now, lt, loadFrame>>

\* requests.get returns or raises; `latency = time.time() - req_start`
WorkerResponse(w, response) ==
    /\ w \in DOMAIN lw
    /\ lw[w].pc = "get"
    /\ lw' = [lw EXCEPT ![w] =
          [@ EXCEPT !.pc = "count", !.response = response,
                    !.latency = IF response.exc = "" THEN now - lw[w].req_start ELSE 0,
                    !.completed = @ + 1,
                    !.ok = IF response.exc = "" /\ response.status_code = 200
                           THEN @ + 1 ELSE @]]
    /\ UNCHANGED <<now, lt, loadFrame>>

\* `with lock:` is entered and the counter of `count += 1` is read:
\* success_count after a status 200, fail_count after any other status
\* and after an exception
WorkerCountRead(w) ==
    /\ w \in DOMAIN lw
    /\ lw[w].pc = "count"
    /\ LockFree(lt.lock)
    /\ lt' = [lt EXCEPT !.lock = w]
    /\ lw' = [lw EXCEPT ![w] =
          [@ EXCEPT !.pc = "store",
                    !.count = IF lw[w].response.exc = ""
                                 /\ lw[w].response.status_code = 200
                              THEN lt.success_count ELSE lt.fail_count]]
    /\ UNCHANGED <<now, loadFrame>>

\* the counter is written, the latency of a status 200 is appended to the
\* worker's buffer, the lock is released; then time.sleep(0.01)
WorkerCountWrite(w) ==
    LET success == lw[w].response.exc = "" /\ lw[w].response.status_code = 200
    IN  /\ w \in DOMAIN lw
        /\ lw[w].pc = "store"
        /\ lt' = [lt EXCEPT !.lock = 0,
                            !.success_count = IF success THEN lw[w].count + 1 ELSE @,
                            !.fail_count = IF success THEN @ ELSE lw[w].count + 1]
        /\ lw' = [lw EXCEPT ![w] =
              [@ EXCEPT !.pc = "loop",
                        !.worker_latencies =
                            IF success THEN Append(@, lw[w].latency) ELSE @]]
        /\ UNCHANGED <<now, loadFrame>>

\* after the loop: `with lock: latencies.extend(worker_latencies)`
WorkerFlush(w) ==
    /\ w \in DOMAIN lw
    /\ lw[w].pc = "flush"
    /\ LockFree(lt.lock)
    /\ lt' = [lt EXCEPT !.latencies = @ \o lw[w].worker_latencies]
    /\ lw' = [lw EXCEPT ![w] = [@ EXCEPT !.pc = "finished", !.flushed = @ + 1]]
    /\ UNCHANGED <<now, loadFrame>>

\* a second passes while the test runs
LoadTick ==
    /\ lt.pc = "running"
    /\ now < MaxDuration + 1
    /\ now' = now + 1
    /\ UNCHANGED <<lt, lw, loadFrame>>

\* every worker has returned: the result is filled in and finalized
LoadFinish ==
    /\ lt.pc = "running"
    /\ \A w \in DOMAIN lw : lw[w].pc = "finished"
    /\ lt' = [lt EXCEPT !.pc = "done",
                        !.result = finalize(LoadTestResult(lt.success_count,
                                       lt.fail_count, now - lt.start_time,
                                       lt.latencies))]
    /\ UNCHANGED <<now, lw, loadFrame>>

\* The arguments of run()
Durations == { NoArg } \cup { <<d>> : d \in 0..MaxDuration }

Concurrencies == { NoArg } \cup { <<c>> : c \in 1..MaxConcurrency }

Profiles == { None, WorkloadProfile(1, MaxConcurrency) }

LoadTestConfigs ==
    { LoadTestConfig(d, c) : d \in 0..MaxDuration, c \in { 1 } }

InitLoad ==
    /\ dep = RunDeployment
    /\ status = NoStatus
    /\ stale = FALSE
    /\ last_config = None
    /\ dry_run = FALSE
    /\ lastCall = NoCall
    /\ ncalls = 0
    /\ wait = NoWait
    /\ NoDriver
    /\ produced = None
    /\ thr = <<>>
    /\ lt \in { NewTester(c) : c \in LoadTestConfigs }
    /\ lw = <<>>
    /\ now = 0
    /\ ecache = <<>>
    /\ lastGet = None
    /\ pconfig = None
    /\ pclient = FALSE
    /\ pcache = <<>>
    /\ pq = None

NextLoad ==
    \/ \E d \in Durations : \E c \in Concurrencies : \E p \in Profiles : LoadRun(d, c, p)
    \/ \E w \in 1..MaxConcurrency : WorkerLoop(w)
    \/ \E w \in 1..MaxConcurrency : \E r \in Responses : WorkerResponse(w, r)
    \/ \E w \in 1..MaxConcurrency : WorkerCountRead(w)
    \/ \E w \in 1..MaxConcurrency : WorkerCountWrite(w)
    \/ \E w \in 1..MaxConcurrency : WorkerFlush(w)
    \/ LoadTick
    \/ LoadFinish

SpecLoad ==
    InitLoad /\ [][NextLoad]_vars

(***************************************************************************)
(* LoadTestResult.finalize over drawn latency pools                        *)
(*                                                                         *)
(* The workers of a load test have returned and left a pool of latencies,  *)
(* drawn here from short pools over a few values and from the ten          *)
(* latencies 0.1, 0.2, ..., 1.0 (in tenths of a second); run() fills in    *)
(* the result and finalizes it, and the caller asks it for percentiles.    *)
(***************************************************************************)
MaxPool == 3

MaxLatency == 4

\* The latencies 0.1, 0.2, ..., 1.0 in tenths of a second, and in reverse
TenLatencies == [i \in 1..10 |-> i]

TenLatenciesReversed == [i \in 1..10 |-> 11 - i]

LatencyPools ==
    UNION { [1..n -> 1..MaxLatency] : n \in 0..MaxPool }
        \cup { TenLatencies, TenLatenciesReversed }

\* The percentiles asked for, in hundredths
Percentiles == { 0, 50, 95, 99, 100 }

\* A percentile computed on its own
Percentile(pct, value) == [op |-> "percentile", pct |-> pct, value |-> value]

\* result._calculate_percentile(pct / 100) on the result run() returned
CalcPercentile(pct) ==
    /\ lt.pc = "done"
    /\ produced' = Percentile(pct, _calculate_percentile(lt.result.latencies, pct))
    /\ UNCHANGED <<gwVars, drvVars, now, ecache, lastGet, pconfig, pclient, pcache, pq,
                   concVars, loadVars>>

\* One worker has returned after d seconds with the pool and f failures
Collected(d, pool, f) ==
    Tester("running", LoadTestConfig(d, 1), NoArg, d, 0, d, 1, 0, pool, Len(pool), f,
           LoadTestResult(0, 0, 0, <<>>))

InitFinal ==
    /\ dep = RunDeployment
    /\ status = NoStatus
    /\ stale = FALSE
    /\ last_config = None
    /\ dry_run = FALSE
    /\ lastCall = NoCall
    /\ ncalls = 0
    /\ wait = NoWait
    /\ NoDriver
    /\ produced = None
    /\ thr = <<>>
    /\ \E d \in 0..MaxDuration : \E pool \in LatencyPools : \E f \in 0..1 :
          /\ lt = Collected(d, pool, f)
          /\ lw = <<Worker("finished", pool, 0, 0, NoResponse, 0, Len(pool) + f,
                           Len(pool) + f, Len(pool), 1)>>
          /\ now = d
    /\ ecache = <<>>
    /\ lastGet = None
    /\ pconfig = None
    /\ pclient = FALSE
    /\ pcache = <<>>
    /\ pq = None

NextFinal ==
    \/ LoadFinish
    \/ \E pct \in Percentiles : CalcPercentile(pct)

SpecFinal ==
    InitFinal /\ [][NextFinal]_vars

(***************************************************************************)
(* FitnessCalculator over drawn metrics                                    *)
(*                                                                         *)
(* calculate() is a pure function of the metrics and of the weights the    *)
(* calculator was constructed with.  Its quantities are quotients of       *)
(* integers here, computed exactly: throughput in steps of 50 req/s,       *)
(* latencies in tenths of a second, utilizations in fifths, the success    *)
(* rate in halves, the error rate in steps of 5 errors/s.                  *)
(***************************************************************************)
MaxMetric == 3

MaxUtil == 6

RECURSIVE GCD(_, _)
GCD(a, b) == IF b = 0 THEN a ELSE GCD(b, a % b)

\* The quotient n / d in lowest terms, with a positive denominator
Q(n, d) ==
    LET g == GCD(IF n < 0 THEN -n ELSE n, IF d < 0 THEN -d ELSE d)
    IN  IF d < 0 THEN Ratio((-n) \div g, (-d) \div g) ELSE Ratio(n \div g, d \div g)

QAdd(x, y) == Q(x[1] * y[2] + y[1] * x[2], x[2] * y[2])

QSub(x, y) == Q(x[1] * y[2] - y[1] * x[2], x[2] * y[2])

QMul(x, y) == Q(x[1] * y[1], x[2] * y[2])

QDiv(x, y) == Q(x[1] * y[2], x[2] * y[1])

QLess(x, y) == x[1] * y[2] < y[1] * x[2]

QMin(x, y) == IF QLess(y, x) THEN y ELSE x

QMax(x, y) == IF QLess(x, y) THEN y ELSE x

QAbs(x) == IF x[1] < 0 THEN Ratio(-x[1], x[2]) ELSE x

One == Ratio(1, 1)

\* FitnessWeights
FitnessWeights(t, l, e, r) ==
    [throughput_weight |-> t, latency_weight |-> l,
     resource_efficiency_weight |-> e, reliability_weight |-> r]

\* FitnessWeights(): 0.3, 0.25, 0.25, 0.2
DefaultWeights == FitnessWeights(Q(30, 100), Q(25, 100), Q(25, 100), Q(20, 100))

\* Mutant of normalize: the weights are used as they were given.
normalize_skipped(w) == w

\* FitnessWeights.normalize
normalize(w) ==
    LET total == QAdd(QAdd(w.throughput_weight, w.latency_weight),
                      QAdd(w.resource_efficiency_weight, w.reliability_weight))
    IN  IF QLess(Zero, total)
        THEN FitnessWeights(QDiv(w.throughput_weight, total),
                            QDiv(w.latency_weight, total),
                            QDiv(w.resource_efficiency_weight, total),
                            QDiv(w.reliability_weight, total))
        ELSE w

\* FitnessMetrics, the fields calculate() reads
FitnessMetrics(throughput, avg_latency, p95_latency, success_rate, cpu_utilization, memory_utilization, error_rate) ==
    [throughput |-> throughput, avg_latency |-> avg_latency,
     p95_latency |-> p95_latency, success_rate |-> success_rate,
     cpu_utilization |-> cpu_utilization,
     memory_utilization |-> memory_utilization, error_rate |-> error_rate]

\* FitnessCalculator._normalize_throughput
_normalize_throughput(throughput) ==
    IF ~QLess(Zero, throughput) THEN Zero
    ELSE QMin(One, QDiv(One, QAdd(One, QDiv(Q(100, 1), throughput))))

\* FitnessCalculator._normalize_latency
_normalize_latency(avg_latency, p95_latency) ==
    IF ~QLess(Zero, avg_latency) THEN One
    ELSE LET avg_score == QDiv(One, QAdd(One, QMul(avg_latency, Q(10, 1))))
             p95_score == IF QLess(Zero, p95_latency)
                          THEN QDiv(One, QAdd(One, QMul(p95_latency, Q(5, 1))))
                          ELSE One
         IN  QAdd(QMul(Q(4, 10), avg_score), QMul(Q(6, 10), p95_score))

\* FitnessCalculator._calculate_efficiency
_calculate_efficiency(metrics) ==
    LET avg_util == QDiv(QAdd(metrics.cpu_utilization, metrics.memory_utilization),
                         Q(2, 1))
        base == IF QLess(avg_util, Q(3, 10)) THEN QDiv(avg_util, Q(3, 10))
                ELSE IF QLess(Q(9, 10), avg_util)
                THEN QDiv(QSub(One, avg_util), Q(1, 10))
                ELSE QSub(One, QDiv(QAbs(QSub(avg_util, Q(6, 10))), Q(3, 10)))
        efficiency == IF QLess(Q(50, 1), metrics.throughput) /\ QLess(avg_util, Q(5, 10))
                      THEN QMul(base, Q(12, 10)) ELSE base
    IN  QMin(One, QMax(Zero, efficiency))

\* FitnessCalculator._calculate_reliability
_calculate_reliability(metrics) ==
    LET error_rate_norm == QMin(One, QDiv(metrics.error_rate, Q(10, 1)))
        reliability == QMul(metrics.success_rate,
                            QSub(One, QMul(error_rate_norm, Q(5, 10))))
    IN  QMax(Zero, reliability)

\* FitnessCalculator.calculate with the calculator's (normalized) weights:
\* the four sub-scores and the fitness returned
calculate_fitness(weights, metrics) ==
    LET throughput_score == _normalize_throughput(metrics.throughput)
        latency_score == _normalize_latency(metrics.avg_latency, metrics.p95_latency)
        efficiency_score == _calculate_efficiency(metrics)
        reliability_score == _calculate_reliability(metrics)
    IN  [op |-> "calculate", weights |-> weights, metrics |-> metrics,
         throughput_score |-> throughput_score,
         latency_score |-> latency_score,
         efficiency_score |-> efficiency_score,
         reliability_score |-> reliability_score,
         fitness |->
            QAdd(QAdd(QMul(weights.throughput_weight, throughput_score),
                      QMul(weights.latency_weight, latency_score)),
                 QAdd(QMul(weights.resource_efficiency_weight, efficiency_score),
                      QMul(weights.reliability_weight, reliability_score)))]

\* The weights calculators are constructed with
WeightSets ==
    { DefaultWeights,
      FitnessWeights(Q(1, 1), Q(1, 1), Q(1, 1), Q(1, 1)),
      FitnessWeights(Q(3, 1), Q(0, 1), Q(1, 2), Q(1, 1)) }

\* The metrics given to calculate()
MetricSets ==
    { FitnessMetrics(Q(50 * t, 1), Q(a, 10), Q(p, 10), Q(s, 2), Q(c, 5), Q(m, 5), Q(5 * e, 1)) :
        t \in 0..MaxMetric, a \in 0..MaxMetric, p \in { 0, MaxMetric }, s \in 0..2,
        c \in 0..MaxUtil, m \in { 0, 1, MaxUtil }, e \in { 0, 1, MaxMetric } }

\* A calculator and the metrics of an evaluation: what calculate() is given
FitnessCall(weights, metrics) == [op |-> "metrics", weights |-> weights, metrics |-> metrics]

\* calculate(individual, metrics)
Calculate ==
    /\ produced # None
    /\ produced.op = "metrics"
    /\ produced' = calculate_fitness(produced.weights, produced.metrics)
    /\ UNCHANGED <<gwVars, drvVars, now, ecache, lastGet, pconfig, pclient, pcache, pq,
                   concVars, loadVars>>

InitFit ==
    /\ dep = RunDeployment
    /\ status = NoStatus
    /\ stale = FALSE
    /\ last_config = None
    /\ dry_run = FALSE
    /\ lastCall = NoCall
    /\ ncalls = 0
    /\ wait = NoWait
    /\ NoDriver
    /\ produced \in { FitnessCall(normalize(w), m) : w \in WeightSets, m \in MetricSets }
    /\ thr = <<>>
    /\ lt = None
    /\ lw = <<>>
    /\ now = 0
    /\ ecache = <<>>
    /\ lastGet = None
    /\ pconfig = None
    /\ pclient = FALSE
    /\ pcache = <<>>
    /\ pq = None

NextFit ==
    \/ Calculate

SpecFit ==
    InitFit /\ [][NextFit]_vars

(***************************************************************************)
(* Properties of apply / rollback (SpecApply)                              *)
(***************************************************************************)
Range(f) == { f[i] : i \in DOMAIN f }

\* The step is a gateway call of kind op
IsCall(op) == ncalls' = ncalls + 1 /\ lastCall'.op = op

\* The deployment's limits are written 'Xm' and 'XMi'
PlainLimits(d) ==
    /\ d # None
    /\ d.exists
    /\ d.limits.cpu # None /\ d.limits.cpu.suf = "m"
    /\ d.limits.memory # None /\ d.limits.memory.suf = "Mi"

AllOk(log) == \A i \in DOMAIN log : log[i].ok

\* C3 (as claimed): with the deployment at S = (r0, c0, m0), limits written
\* 'Xm' and 'XMi', a successful apply(ind, save_for_rollback = true) followed
\* by a rollback() whose requests all succeed leaves the deployment with
\* replicas r0 and requests = limits = the limits of S.
C3_RollbackRoundTrip ==
    [][ ( /\ IsCall("rollback")
          /\ ~dry_run
          /\ lastCall.op = "apply" /\ lastCall.save /\ lastCall.exc = "ok"
          /\ PlainLimits(lastCall.dep0)
          /\ Req("read", TRUE) \in Range(lastCall.log)
          /\ AllOk(lastCall'.log) )
        => ( /\ dep'.replicas = lastCall.dep0.replicas
             /\ dep'.limits = lastCall.dep0.limits
             /\ dep'.requests = lastCall.dep0.limits ) ]_gwVars

OutOfRange(ind) ==
    \/ ind.replicas < 1 \/ ind.replicas > 100
    \/ ind.cpu_limit < 10 \/ ind.cpu_limit > 100000
    \/ ind.memory_limit < 64 \/ ind.memory_limit > 100000

\* C5: an apply of an individual outside the validation ranges raises
\* ConfigurationError with no request issued, the deployment and the snapshot
\* unchanged; the boundary values themselves are not rejected.
C5_ValidationBeforeMutation ==
    [][ IsCall("apply")
        => /\ OutOfRange(lastCall'.ind)
               => ( /\ lastCall'.exc = "ConfigurationError"
                    /\ lastCall'.log = <<>>
                    /\ dep' = dep
                    /\ last_config' = last_config )
           /\ lastCall'.ind \in {LowInd, HighInd}
               => lastCall'.exc # "ConfigurationError" ]_gwVars

C5_Witness ==
    /\ lastCall.op = "apply" /\ lastCall.save
    /\ OutOfRange(lastCall.ind)
    /\ lastCall.exc = "ConfigurationError"
    /\ lastCall.dep0.exists /\ PlainLimits(lastCall.dep0)

\* C6: in every apply (and rollback) the scale request precedes the resource
\* patch request, and the patch is issued only after a scale that succeeded.
C6_ScaleBeforePatch ==
    \A i \in DOMAIN lastCall.log :
        lastCall.log[i].req = "patch"
        => \E j \in 1..(i - 1) : lastCall.log[j] = Req("scale", TRUE)

C6_Witness ==
    /\ lastCall.op \in {"apply", "apply_k8s"}
    /\ \E i, j \in DOMAIN lastCall.log :
          i < j /\ lastCall.log[i].req = "scale" /\ lastCall.log[j].req = "patch"

(***************************************************************************)
(* Properties of wait_for_rollout (SpecRolloutFair)                        *)
(***************************************************************************)
IsPoll == wait.pc = "polling" /\ wait'.polls = wait.polls + 1

Converged(st) ==
    st.replicas > 0 /\ st.replicas = st.updated /\ st.replicas = st.available
    /\ st.replicas = st.ready

\* C7: wait_for_rollout returns true at the first poll that observes
\* desired > 0 and desired = updated = available = ready; it returns false only
\* at the timeout, when no poll observed that; a poll that sees unavailable
\* pods or gets an API error does not end the wait; and the call always
\* returns.
C7_WaitForRollout ==
    /\ [][IsPoll => /\ (wait'.obs # ApiException /\ Converged(wait'.obs))
                         <=> (wait'.pc = "done" /\ wait'.ret)
                    /\ (wait'.obs = ApiException \/ ~Converged(wait'.obs))
                         => wait'.pc = "polling"
                    /\ wait'.obs \in {status, ApiException}]_gwVars
    /\ [][(wait.pc = "polling" /\ wait'.pc = "done" /\ ~wait'.ret)
            => (wait.elapsed >= wait.timeout
                /\ (wait.obs = None \/ wait.obs = ApiException \/ ~Converged(wait.obs)))]_gwVars
    /\ [](wait.pc = "polling" => <>(wait.pc = "done"))

C7_Witness ==
    /\ wait.pc = "done" /\ wait.ret
    /\ wait.polls = 2
    /\ wait.obs = Status(1, 1, 1, 1)


(***************************************************************************)
(* Properties of the evaluations and of run() (Spec, SpecPar)              *)
(***************************************************************************)
EvalOrder == <<"apply", "rollout", "load", "telemetry", "fitness">>

\* The step traces in the state: those of the evaluations in progress and
\* those of the results of the generation
Traces ==
    { workers[w].steps : w \in Workers } \cup { results[i].steps : i \in DOMAIN results }

\* Thread w is between the return of its apply and the end of its load test
Measuring(w) == workers[w].pc \in { "rollout", "load" }

\* The deployment holds the configuration of individual ind
Holds(d, ind) ==
    /\ d.replicas = ind.replicas
    /\ d.limits = [cpu |-> CpuQty(ind), memory |-> MemQty(ind)]

\* C1: in parallel mode no evaluation issues an apply while another one is
\* between its apply and the end of its load test, and so a load test
\* always starts against the configuration of the individual it measures.
C1_NoOverlap ==
    /\ [][ \A w \in Workers : \A v \in Workers \ { w } :
             Measuring(v) => ~(workers[w].pc = "apply" /\ workers'[w].pc # "apply") ]_vars
    /\ [](\A w \in Workers : workers[w].pc = "load" => Holds(dep, workers[w].ind))

\* C2: the calls of an evaluation are made in the order apply, rollout wait,
\* load test, telemetry, fitness; a call is made only after the previous
\* one returned normally; an evaluation whose calls all returned normally
\* has made all five.
C2_StepOrder ==
    /\ \A t \in Traces :
         /\ Len(t) <= Len(EvalOrder)
         /\ \A i \in DOMAIN t : t[i].name = EvalOrder[i]
         /\ \A i \in DOMAIN t : i < Len(t) => t[i].out = "ok"
    /\ \A w \in Workers :
         workers[w].pc \in Range(EvalOrder) =>
            /\ workers[w].pc = EvalOrder[Len(workers[w].steps) + 1]
            /\ \A i \in DOMAIN workers[w].steps : workers[w].steps[i].out = "ok"
    /\ \A i \in DOMAIN results :
         (\A j \in DOMAIN results[i].steps : results[i].steps[j].out = "ok")
            => Len(results[i].steps) = Len(EvalOrder)

C2_Witness ==
    \E i \in DOMAIN results :
        /\ Len(results[i].steps) = Len(EvalOrder)
        /\ results[i].metrics = "measured"

\* C8: a rollout wait that returns False is the last call of its
\* evaluation: no load test and no telemetry query follows; the result is
\* fitness 0 with zero metrics; and run() is not ended by it.
C8_RolloutFailure ==
    /\ \A w \in Workers :
         \A i \in DOMAIN workers[w].steps : workers[w].steps[i] # Step("rollout", "false")
    /\ \A i \in DOMAIN results :
         LET r == results[i]
         IN  (\E j \in DOMAIN r.steps : r.steps[j] = Step("rollout", "false"))
               => /\ r.steps = <<Step("apply", "ok"), Step("rollout", "false")>>
                  /\ r.fitness = 0
                  /\ r.metrics = "zero"
                  /\ phase = "evaluating"

\* the first evaluation of a generation ended on a failed rollout and the
\* driver has gone on to the next individual, which has been measured
C8_Witness ==
    /\ Len(results) = 2
    /\ results[1].steps = <<Step("apply", "ok"), Step("rollout", "false")>>
    /\ results[2].metrics = "measured"

\* C9 as stated: an evaluation in which the scale or patch request failed
\* leaves no result behind, because the KubernetesError ends run().
C9_PlatformFailureAborts ==
    \A i \in DOMAIN results :
        results[i].raised = "KubernetesError" => phase = "aborted"

\* Thread w's apply_configuration call raises after validation
ApplyRaisedPlatformError(w) ==
    /\ workers[w].pc = "apply"
    /\ workers'[w].pc # workers[w].pc
    /\ workers'[w].pc # NextStep("apply")
    /\ _validate_individual(workers[w].ind) = "ok"

\* C9, amended: a KubernetesError raised by the scale or patch request is
\* caught inside evaluate: the individual gets fitness 0 with zero metrics
\* and no error text, the result is cached, and run() goes on; run() is
\* never ended by an exception of an evaluation.
C9_PlatformFailureRecorded ==
    /\ [][ \A w \in Workers :
             ApplyRaisedPlatformError(w) =>
                LET r == Result(workers[w].ind, 0, "zero", "",
                                <<Step("apply", "KubernetesError")>>, "KubernetesError")
                IN  /\ results' = Append(results, r)
                    /\ _get_key(workers[w].ind) \in DOMAIN cache'
                    /\ cache'[_get_key(workers[w].ind)] = r
                    /\ phase' = "evaluating" ]_vars
    /\ [](phase # "aborted")

\* run() has returned after an evaluation hit a KubernetesError
C9_Witness ==
    /\ phase = "done"
    /\ \E k \in DOMAIN cache : cache[k].raised = "KubernetesError"

\* An evaluation ended by a failure of its own: rejected by the gateway's
\* validation, rollout not completed, or telemetry queries failing
OwnFailure(r) ==
    \/ r.raised \in { "ConfigurationError", "PrometheusError" }
    \/ \E j \in DOMAIN r.steps : r.steps[j] = Step("rollout", "false")

QueryEnded == pq.pc = "done" /\ ~pq.hit

AllAttemptsFailed == QueryEnded /\ pq.fails = pconfig.retry_attempts

\* C11: a semantic telemetry method whose every retry attempt failed
\* returns the default 0 instead of raising.
C11_TelemetryDegrades ==
    AllAttemptsFailed => pq.outcome = Returned(DefaultValue)

\* C12: a retried query makes at most N attempts; it ends at the first
\* attempt that succeeds; after failed attempt k (from 0) it sleeps d * 2^k
\* if another attempt follows and not at all after the last; it raises
\* PrometheusError exactly when all N attempts failed.
C12_RetryBackoff ==
    LET N == pconfig.retry_attempts
        d == pconfig.retry_delay
    IN  pq.pc \in { "retry", "done" } /\ ~pq.hit =>
          /\ pq.attempt <= N
          /\ \A i \in DOMAIN pq.waits : pq.waits[i] = d * 2 ^ (i - 1)
          /\ pq.pc = "retry" =>
                /\ pq.attempt < N
                /\ pq.fails = pq.attempt
                /\ Len(pq.waits) = pq.fails
          /\ pq.pc = "done" =>
                /\ pq.outcome = Raised("PrometheusError") <=> pq.fails = N
                /\ pq.fails = N => /\ pq.attempt = N
                                   /\ Len(pq.waits) = IF N = 0 THEN 0 ELSE N - 1
                /\ pq.fails < N => /\ pq.attempt = pq.fails + 1
                                   /\ Len(pq.waits) = pq.fails

\* all three attempts of a query failed, after sleeps of d and 2d
C12_Witness ==
    /\ AllAttemptsFailed
    /\ pq.fails = 3
    /\ pq.waits = <<pconfig.retry_delay, 2 * pconfig.retry_delay>>
    /\ pq.outcome = Raised("PrometheusError")


(***************************************************************************)
(* Properties of the evaluation cache (SpecCache)                          *)
(***************************************************************************)
\* The step is the cache call op
IsCacheCall(op) == lastGet'.n = lastGet.n + 1 /\ lastGet'.op = op

\* C13: put stores the result with the time of the call; the entry stays as
\* it is until the next put, clear or removal of that individual; get
\* returns the stored result while the entry is younger than the TTL, and
\* from age TTL on returns nothing and removes the entry.
C13_CacheTtl ==
    [][ \A ind \in CacheInds :
          LET key == _get_key(ind)
          IN  /\ IsCacheCall("put") /\ lastGet'.ind = ind
                 => /\ key \in DOMAIN ecache'
                    /\ ecache'[key] = [timestamp |-> now, result |-> lastGet'.res]
              /\ IsCacheCall("get") /\ lastGet'.ind = ind /\ key \in DOMAIN ecache
                 => IF now - ecache[key].timestamp < CacheTtl
                    THEN lastGet'.ret = ecache[key].result /\ ecache' = ecache
                    ELSE lastGet'.ret = None /\ key \notin DOMAIN ecache'
              /\ IsCacheCall("get") /\ lastGet'.ind = ind /\ key \notin DOMAIN ecache
                 => lastGet'.ret = None /\ ecache' = ecache
              /\ IsCacheCall("none") /\ key \in DOMAIN ecache
                 => key \in DOMAIN ecache' /\ ecache'[key] = ecache[key]
              /\ (IsCacheCall("put") \/ IsCacheCall("get")) /\ _get_key(lastGet'.ind) # key
                     /\ key \in DOMAIN ecache
                 => key \in DOMAIN ecache' /\ ecache'[key] = ecache[key] ]_vars

\* a get finds an entry that is exactly TTL old, returns nothing and
\* removes it
C13_Witness ==
    /\ lastGet.op = "get"
    /\ lastGet.ret = None
    /\ lastGet.at = CacheTtl
    /\ lastGet.n = 3
    /\ _get_key(lastGet.ind) \notin DOMAIN ecache

\* C15: the cache key depends on the identity triple alone: a get for an
\* individual equal (by its triple) to one whose result is stored and
\* younger than the TTL returns that result, whether or not the two name a
\* container.
C15_KeyOnTriple ==
    [][ \A k \in DOMAIN ecache :
          /\ IsCacheCall("get")
          /\ IndEq(ecache[k].result.individual, lastGet'.ind)
          /\ now - ecache[k].timestamp < CacheTtl
          /\ \A j \in DOMAIN ecache : IndEq(ecache[j].result.individual, lastGet'.ind) => j = k
          => lastGet'.ret = ecache[k].result ]_vars

\* ---------------------------------------------------------------------
\* Properties of the evaluation cache inside the run (Spec)
\* ---------------------------------------------------------------------

\* C14: when the cache lookup of an evaluation finds a result that is still
\* valid, the evaluation returns that very result at once: no apply, no
\* rollout wait, no load test and no telemetry query is made, so the
\* deployment, the rollback snapshot and the cache stay as they are.
C14_CacheHit ==
    [][\A w \in Workers :
          (/\ workers[w].pc = "cache"
           /\ workers'[w].pc # "cache"
           /\ _get_key(workers[w].ind) \in DOMAIN cache')
          => /\ workers'[w] = IdleWorker
             /\ results' = Append(results, cache[_get_key(workers[w].ind)])
             /\ dep' = dep
             /\ last_config' = last_config
             /\ cache' = cache]_vars

\* Both individuals of generation 0 are equal: the first was measured, the
\* second got the cached result, and the snapshot still is the
\* configuration from before the first apply
C14_Witness ==
    /\ generation = 0
    /\ Len(results) = 2
    /\ results[1] = results[2]
    /\ results[1].metrics = "measured"
    /\ Len(results[2].steps) = 5
    /\ last_config # None
    /\ last_config.replicas = RunDeployment.replicas
    /\ dep.replicas = 100


\* ---------------------------------------------------------------------
\* Properties of the end of the run (Spec)
\* ---------------------------------------------------------------------

\* C16: the final apply happens after the last generation, when every
\* evaluation of every generation has returned; it applies the best
\* individual with save_for_rollback = False, so the rollback snapshot is
\* left as it was; it happens once, nothing follows it, and the step that
\* ends the last generation does not evolve the population.
C16_FinalApply ==
    [][/\ phase # "done"
       /\ (phase = "apply_best" /\ phase' # "apply_best")
          => /\ last_config' = last_config
             /\ \A w \in Workers : workers[w].pc = "idle"
             /\ results = <<>>
             /\ generation = params.generations - 1
             /\ Len(history) = params.generations
             /\ n_results = params.generations * params.population_size
             /\ best.individual # None
             /\ dep' \in {apply_configuration(dep, last_config, dry_run,
                                              best.individual, FALSE, fl).dep :
                             fl \in Flags}
             /\ UNCHANGED <<population, generation, history, best>>
       /\ (phase # "apply_best" /\ phase' = "apply_best")
          => /\ generation = params.generations - 1
             /\ UNCHANGED <<population, generation>>]_vars

\* The run is over: the best individual was measured and is what the
\* deployment holds, and a snapshot of an earlier evaluation is still there
C16_Witness ==
    /\ phase = "done"
    /\ best.fitness > 0
    /\ Holds(dep, best.individual)
    /\ last_config # None
    /\ last_config.replicas = RunDeployment.replicas


\* The largest fitness the run has recorded in a generation so far
MaxRecorded(h) ==
    CHOOSE m \in { h[g].max_fitness : g \in DOMAIN h } :
        \A g \in DOMAIN h : h[g].max_fitness <= m

\* C17: the best individual kept by the run has the largest fitness over
\* the results of all generations evaluated so far, and on a tie it is the
\* one evaluated first: at the end of a generation the tracked best is
\* replaced only by a strictly larger fitness, and then by the first result
\* of the generation that reaches it. The tracked best fitness never
\* decreases, and there is no best individual only while no generation has
\* been evaluated.
C17_BestIsMaximum ==
    [][/\ best'.fitness >= best.fitness
       /\ (Len(history') # Len(history)) =>
             LET m  == CHOOSE f \in { results[i].fitness : i \in DOMAIN results } :
                          \A i \in DOMAIN results : results[i].fitness <= f
                 i0 == CHOOSE i \in DOMAIN results :
                          /\ results[i].fitness = m
                          /\ \A j \in 1..(i - 1) : results[j].fitness < m
             IN  /\ Len(history') = Len(history) + 1
                 /\ history'[Len(history')].max_fitness = m
                 /\ best' = IF m > best.fitness
                            THEN [individual |-> results[i0].individual, fitness |-> m]
                            ELSE best
       /\ (Len(history') = Len(history)) => best' = best
       /\ (best'.individual = None) <=> (history' = <<>>)
       /\ (history' # <<>>) =>
             LET g0 == CHOOSE g \in DOMAIN history' :
                          /\ history'[g].max_fitness = MaxRecorded(history')
                          /\ \A k \in 1..(g - 1) :
                                history'[k].max_fitness < MaxRecorded(history')
             IN  /\ best'.fitness = MaxRecorded(history')
                 /\ best'.individual = history'[g0].best_individual]_vars

\* The run is over; generation 0 ended with every fitness 0, the first of
\* its individuals became the best, and generation 1 measured a larger
\* fitness, which replaced it
C17_Witness ==
    /\ phase = "done"
    /\ Len(history) = 2
    /\ history[1].max_fitness = 0
    /\ history[1].best_individual.replicas = 100
    /\ history[2].max_fitness > 0
    /\ best.fitness = history[2].max_fitness


\* ---------------------------------------------------------------------
\* Properties of the parallel evaluation of a population (SpecPar)
\* ---------------------------------------------------------------------

\* Every evaluation of the generation has returned
GenerationEvaluated ==
    /\ phase = "evaluating"
    /\ Len(results) = Len(population)
    /\ \A w \in Workers : workers[w].pc = "idle"

\* The fields of an EvaluationResult
Observed(r) ==
    [individual |-> r.individual, fitness |-> r.fitness,
     metrics |-> r.metrics, error |-> r.error]

\* C18: in parallel mode the list returned for a generation is as long as
\* the population, and its i-th entry is the result that the evaluation of
\* the population's i-th individual returned, whatever the order in which
\* the evaluations finished and also when the population holds equal
\* individuals.
C18_ResultsInOrder ==
    (UseParallel /\ GenerationEvaluated) =>
        /\ Len(OrderedResults) = Len(population)
        /\ \A i \in DOMAIN population :
              Observed(OrderedResults[i]) =
                  Observed(results[CHOOSE j \in DOMAIN results : completed[j] = i])


\* ---------------------------------------------------------------------
\* Properties of evolve() inside the generation loop (SpecEvolve)
\* ---------------------------------------------------------------------

\* The step is the evolve() call that ends a generation
EvolveStep == generation' # generation

\* The fitness scores evolve() is given
Scores == [i \in DOMAIN results |-> results[i].fitness]

\* v is the k-th largest of the scores
KthLargest(v, k) ==
    /\ Cardinality({ j \in DOMAIN Scores : Scores[j] > v }) < k
    /\ k <= Cardinality({ j \in DOMAIN Scores : Scores[j] >= v })

\* C19: evolve() puts the elitism_count individuals of highest fitness of
\* the generation, unchanged, at the first positions of the next generation
\* (all of them when elitism_count exceeds the population size), in
\* descending order of fitness: the k-th position holds a parent whose
\* fitness is the k-th largest, a different parent for each position, and
\* so index 0 holds a best individual of the generation.
C19_Elitism ==
    [][EvolveStep =>
          LET n == Len(population)
              e == Min(params.elitism_count, n)
          IN  \E f \in [1..e -> 1..n] :
                 /\ \A k, l \in 1..e : k # l => f[k] # f[l]
                 /\ \A k \in 1..e :
                       /\ population'[k] = population[f[k]]
                       /\ KthLargest(Scores[f[k]], k)]_vars

\* A generation of two individuals evolved with elitism_count = 2 from a
\* population whose second individual scored higher: the next generation
\* is the two parents, the better one first
C19_Witness ==
    /\ generation = 1
    /\ params.elitism_count = 2
    /\ Len(population) = 2
    /\ population[1] # population[2]
    /\ history[1].best_individual = population[1]
    /\ history[1].max_fitness > history[1].min_fitness
    /\ results = <<>>

\* C20: every evolve step returns as many individuals as it was given and
\* a generation number one higher, for every elitism_count >= 0, also one
\* larger than the population; the run evaluates the generations
\* 0 .. generations - 1 in this order, each with population_size
\* individuals.
C20_SizeAndGeneration ==
    [][/\ EvolveStep =>
             /\ Len(population') = Len(population)
             /\ generation' = generation + 1
       /\ Len(population') = params.population_size
       /\ Len(history') <= params.generations
       /\ \A g \in DOMAIN history' :
             /\ history'[g].generation = g - 1
             /\ history'[g].population_size = params.population_size
       /\ (Len(history') # Len(history)) =>
             /\ Len(history') = generation + 1
             /\ Len(results) = params.population_size
       /\ (phase' \in {"apply_best", "done"}) =>
             Len(history') = params.generations]_vars

\* A population of two evolved with elitism_count = 3
C20_Witness ==
    /\ generation = 1
    /\ params.elitism_count = 3
    /\ Len(population) = 2
    /\ Len(history) = 1
    /\ history[1].generation = 0


\* ---------------------------------------------------------------------
\* Properties of the population manager (SpecPop)
\* ---------------------------------------------------------------------

\* Individual ind lies within the bounds of p, cpu_limit with at most two
\* decimals
InBounds(p, ind) ==
    /\ p.replicas_bounds[1] <= ind.replicas
    /\ ind.replicas <= p.replicas_bounds[2]
    /\ p.cpu_limit_bounds[1] <= ind.cpu_limit
    /\ ind.cpu_limit <= p.cpu_limit_bounds[2]
    /\ p.memory_limit_bounds[1] <= ind.memory_limit
    /\ ind.memory_limit <= p.memory_limit_bounds[2]
    /\ ind.cpu_limit % 10 = 0

\* C21: every individual of the initial population and of every evolved
\* population, and every individual returned by create_random_individual,
\* validate_individual, mutate and crossover, has replicas, cpu_limit and
\* memory_limit within the configured bounds and a cpu_limit with at most
\* two decimals.
C21_WithinBounds ==
    /\ \A i \in DOMAIN population : InBounds(params, population[i])
    /\ produced # None => InBounds(params, produced.ind)


\* ---------------------------------------------------------------------
\* Properties of the generation statistics (SpecStats)
\* ---------------------------------------------------------------------

\* C22: the end of a generation appends exactly one GenerationStats to the
\* history, after those of the earlier generations; it has the number of
\* the generation, the size of its population, the smallest and the
\* largest fitness of the results of the generation, an avg_fitness with
\* min_fitness <= avg_fitness <= max_fitness, and as best_individual an
\* individual of the generation whose result has fitness max_fitness.
C22_GenerationStats ==
    [][(history' # history) =>
          LET st == history'[Len(history')]
          IN  /\ history' = Append(history, st)
              /\ Len(history') = generation + 1
              /\ st.generation = generation
              /\ st.population_size = Len(population)
              /\ Len(results) = Len(population)
              /\ \A i \in DOMAIN results :
                    /\ results[i].individual = population[i]
                    /\ st.min_fitness <= results[i].fitness
                    /\ results[i].fitness <= st.max_fitness
              /\ \E i \in DOMAIN results : results[i].fitness = st.min_fitness
              /\ \E i \in DOMAIN results :
                    /\ results[i].fitness = st.max_fitness
                    /\ results[i].individual = st.best_individual
              /\ st.min_fitness * AvgScale <= st.avg_fitness
              /\ st.avg_fitness <= st.max_fitness * AvgScale]_vars


\* ---------------------------------------------------------------------
\* Further properties of apply / rollback (SpecApply)
\* ---------------------------------------------------------------------

\* A limit of deployment d is written in a way _save_current_config does
\* not parse
Unparsable(d) ==
    /\ d.exists
    /\ \/ d.limits.cpu # None /\ ~ParseCpu(d.limits.cpu).ok
       \/ d.limits.memory # None /\ ~ParseMem(d.limits.memory).ok

\* The requests of a call that change the deployment
Mutations(log) == SelectSeq(log, LAMBDA e : e.req # "read")

\* C23: an apply with save_for_rollback = true of a valid individual, made
\* while the deployment is absent or has a limit that cannot be parsed,
\* keeps the snapshot as it was and goes on as an apply without a
\* snapshot does: same scale and patch requests, same outcome, same
\* deployment.  A rollback() made while there is no snapshot issues no
\* request, changes nothing and returns false.
C23_SnapshotNoOp ==
    [][ /\ ( /\ IsCall("apply") /\ lastCall'.save
             /\ _validate_individual(lastCall'.ind) = "ok"
             /\ (~dep.exists \/ Unparsable(dep)) )
            => /\ last_config' = last_config
               /\ \E fl \in Flags :
                     LET r == apply_configuration(dep, last_config, dry_run,
                                                  lastCall'.ind, FALSE, fl)
                     IN  /\ dep' = r.dep
                         /\ lastCall'.exc = r.exc
                         /\ Mutations(lastCall'.log) = r.log
        /\ (IsCall("rollback") /\ last_config = None)
            => /\ dep' = dep
               /\ last_config' = None
               /\ lastCall'.log = <<>>
               /\ ~lastCall'.ret ]_gwVars


\* C24: rollback() raises nothing and never changes the snapshot.  Without
\* a snapshot it returns false and issues no request.  With a snapshot it
\* applies the snapshot with save_for_rollback = false and returns whether
\* that apply succeeded; a rollback() that follows a rollback() applies the
\* same configuration again.
C24_Rollback ==
    [][ IsCall("rollback") =>
          /\ last_config' = last_config
          /\ lastCall'.exc = "ok"
          /\ lastCall'.ind = last_config
          /\ (last_config = None) =>
                /\ ~lastCall'.ret
                /\ lastCall'.log = <<>>
                /\ dep' = dep
          /\ (last_config # None) =>
                \E fl \in Flags :
                   LET r == apply_configuration(dep, last_config, dry_run,
                                                last_config, FALSE, fl)
                   IN  /\ dep' = r.dep
                       /\ lastCall'.log = r.log
                       /\ Range(r.log) \subseteq { Req(q, ok) : q \in {"scale", "patch"},
                                                                ok \in BOOLEAN }
                       /\ lastCall'.ret = (r.exc = "ok")
          /\ (lastCall.op = "rollback") => lastCall'.ind = lastCall.ind ]_gwVars

\* A second rollback() in a row has succeeded: it met the deployment the
\* first one had restored, and the snapshot is still there
C24_Witness ==
    /\ ncalls = 3
    /\ lastCall.op = "rollback"
    /\ lastCall.ret
    /\ Len(lastCall.log) = 2
    /\ last_config # None
    /\ lastCall.ind = last_config
    /\ Holds(lastCall.dep0, last_config)
    /\ Holds(dep, last_config)


\* ---------------------------------------------------------------------
\* Dry-run (SpecRollout)
\* ---------------------------------------------------------------------

\* C25: with dry_run set, an apply and a rollback issue no scale and no
\* resource-patch request and the deployment stays as it is, so that the
\* deployment never changes; a pass of the wait_for_rollout loop still
\* requests the deployment status from the platform, and the wait returns
\* true only on a status it was given that shows the rollout complete.
C25_DryRun ==
    [][ /\ dry_run' = dry_run
        /\ dry_run => dep' = dep
        /\ (dry_run /\ (IsCall("apply") \/ IsCall("rollback")))
            => Mutations(lastCall'.log) = <<>>
        /\ (wait.pc = "polling" /\ wait' # wait /\ wait.elapsed < wait.timeout)
            => /\ wait'.polls = wait.polls + 1
               /\ wait'.obs \in {status, ApiException}
               /\ wait'.ret <=> (wait'.obs = status /\ RolloutComplete(status)) ]_gwVars

\* In dry-run, after an apply or a rollback, a wait has polled the status
\* of the deployment and returned true, the deployment still being the
\* one the client found
C25_Witness ==
    /\ dry_run
    /\ ncalls >= 2
    /\ last_config # None
    /\ lastCall.op = "wait_for_rollout"
    /\ wait.pc = "done"
    /\ wait.ret
    /\ wait.polls >= 1
    /\ wait.obs = status
    /\ dep = Deployment(TRUE, 2, Q500m, Q256Mi, Q500m, Q256Mi)


\* ---------------------------------------------------------------------
\* Properties of the telemetry cache (SpecProm)
\* ---------------------------------------------------------------------

\* The step is the start of a query that uses the cache, on a client that
\* makes at least one attempt
CachedQueryStart ==
    /\ pq'.n = pq.n + 1
    /\ pq'.use_cache
    /\ pconfig.retry_attempts >= 1

\* The cache holds an entry for the query being started, younger than the ttl
FreshEntry ==
    /\ pq'.query \in DOMAIN pcache
    /\ now - pcache[pq'.query].timestamp < TelemetryCacheTtl

\* The cache holds an entry for the query being started, of the ttl or older
StaleEntry ==
    /\ pq'.query \in DOMAIN pcache
    /\ now - pcache[pq'.query].timestamp >= TelemetryCacheTtl

\* A query started on a fresh entry returns the cached value at once, with
\* no attempt on the backend; one started on a stale entry, or on none,
\* goes to the backend
CacheLookupRule ==
    /\ (CachedQueryStart /\ FreshEntry) =>
          /\ pq'.pc = "done"
          /\ pq'.attempt = 0
          /\ pq'.outcome = query_instant_result(pcache[pq'.query].result, DefaultValue)
    /\ (CachedQueryStart /\ ~FreshEntry) =>
          /\ pq'.pc = "retry"
          /\ pq'.attempt = 0
          /\ ~pq'.hit

\* C26 (as claimed): a query with a cached entry younger than 5 s returns
\* the cached value with no backend call; a query with a cached entry of
\* 5 s or older does not use it and calls the backend, and that lookup
\* removes the stale entry from the cache.
C26_StaleEntryDiscarded ==
    [][ /\ CacheLookupRule
        /\ (CachedQueryStart /\ StaleEntry) => pq'.query \notin DOMAIN pcache' ]_vars

\* C26 (amended): a query with a cached entry younger than 5 s returns the
\* cached value with no backend call; a query with a cached entry of 5 s or
\* older does not use it and calls the backend.  The lookup leaves the
\* cache as it is: the entry is replaced, with the new result and time,
\* when an attempt succeeds, and it stays in the cache when every attempt
\* fails.
C26_TelemetryCache ==
    [][ /\ CacheLookupRule
        /\ pq'.n = pq.n + 1 => pcache' = pcache
        /\ (pq.pc = "retry" /\ pq'.pc = "done" /\ pq.use_cache) =>
              IF pq'.outcome = Raised("PrometheusError")
              THEN pcache' = pcache
              ELSE /\ pq.query \in DOMAIN pcache'
                   /\ pcache'[pq.query].timestamp = now'
                   /\ pq'.outcome = query_instant_result(pcache'[pq.query].result,
                                                         DefaultValue)
                   /\ \A q \in DOMAIN pcache \ { pq.query } :
                         q \in DOMAIN pcache' /\ pcache'[q] = pcache[q]
        /\ (pq.pc = "retry" /\ ~pq.use_cache) => pcache' = pcache ]_vars

\* The second query met an entry of the ttl or older, went to the backend,
\* where every attempt failed, and the stale entry is still in the cache
C26_Witness ==
    /\ pq.pc = "done"
    /\ pq.n = 2
    /\ pq.use_cache
    /\ ~pq.hit
    /\ pq.fails >= 1
    /\ pq.outcome = Raised("PrometheusError")
    /\ pq.query \in DOMAIN pcache
    /\ now - pcache[pq.query].timestamp >= TelemetryCacheTtl


\* ---------------------------------------------------------------------
\* Properties of the evaluation cache under concurrent threads (SpecConc)
\* ---------------------------------------------------------------------

\* C27: with several evaluating threads calling get and put on the shared
\* cache at the same time, two of them looking up the same expired key
\* included, no call raises, and a get that returns a result returns one
\* stored for the individual it was called with.
C27_MutexProtectedMaps ==
    \A t \in Threads :
        /\ thr[t].err = ""
        /\ (thr[t].pc = "returned" /\ thr[t].ret # None) =>
              _get_key(thr[t].ret.individual) = _get_key(thr[t].ind)


\* ---------------------------------------------------------------------
\* Properties of the load test (SpecLoad)
\* ---------------------------------------------------------------------

\* The answer to a request is a response with a 2xx status
Is2xx(response) ==
    response.exc = "" /\ response.status_code >= 200 /\ response.status_code <= 299

\* Worker w finishes the counting of the request it has completed
Counts(w) ==
    /\ w \in DOMAIN lw
    /\ w \in DOMAIN lw'
    /\ lw[w].pc = "store"
    /\ lw'[w] # lw[w]

\* C28: every completed request is counted exactly once: a response with
\* any 2xx status adds 1 to success and its latency to the worker's
\* latencies, every other outcome (another status, a timeout, a transport
\* error) adds 1 to fail and no latency; in both cases the worker goes on
\* with its loop.
C28_EveryRequestCounted ==
    [][ \A w \in 1..MaxConcurrency :
          Counts(w) =>
            /\ lw'[w].pc = "loop"
            /\ IF Is2xx(lw[w].response)
               THEN /\ lt'.success_count = lt.success_count + 1
                    /\ lt'.fail_count = lt.fail_count
                    /\ lw'[w].worker_latencies =
                          Append(lw[w].worker_latencies, lw[w].latency)
               ELSE /\ lt'.fail_count = lt.fail_count + 1
                    /\ lt'.success_count = lt.success_count
                    /\ lw'[w].worker_latencies = lw[w].worker_latencies ]_vars

\* The sum of f[w] over the workers 1..n
RECURSIVE SumWorkers(_, _)
SumWorkers(f, n) == IF n = 0 THEN 0 ELSE f[n] + SumWorkers(f, n - 1)

\* The requests worker w has completed and counted
Counted(w) ==
    lw[w].completed - (IF lw[w].pc \in { "count", "store" } THEN 1 ELSE 0)

\* C29: with the workers running concurrently no update of the shared
\* counters and of the latency pool is lost: at every moment success + fail
\* is the number of requests the workers have completed and counted, and
\* success the number of them answered with status 200; once all workers
\* have finished, success + fail is the number of requests completed, the
\* pool holds one entry per request counted as a success, and every worker
\* has flushed its buffer exactly once; the result carries these values.
C29_NoLostUpdate ==
    lt.pc \in { "running", "done" } =>
      LET n == lt.num_workers
      IN  /\ lt.success_count + lt.fail_count
                = SumWorkers([w \in 1..n |-> Counted(w)], n)
          /\ lt.success_count
                = SumWorkers([w \in 1..n |->
                      lw[w].ok - (IF lw[w].pc \in { "count", "store" }
                                     /\ lw[w].response = Response(200)
                                  THEN 1 ELSE 0)], n)
          /\ Len(lt.latencies)
                = SumWorkers([w \in 1..n |->
                      IF lw[w].pc = "finished" THEN Len(lw[w].worker_latencies) ELSE 0], n)
          /\ \A w \in 1..n :
                /\ lw[w].flushed = (IF lw[w].pc = "finished" THEN 1 ELSE 0)
                /\ Len(lw[w].worker_latencies)
                      = lw[w].ok - (IF lw[w].pc \in { "count", "store" }
                                       /\ lw[w].response = Response(200)
                                    THEN 1 ELSE 0)
          /\ (\A w \in 1..n : lw[w].pc = "finished") =>
                /\ lt.success_count + lt.fail_count
                      = SumWorkers([w \in 1..n |-> lw[w].completed], n)
                /\ Len(lt.latencies) = lt.success_count
          /\ lt.pc = "done" =>
                /\ lt.result.success = lt.success_count
                /\ lt.result.fail = lt.fail_count
                /\ lt.result.latencies = lt.latencies

\* A test with two workers has ended, each worker having completed a
\* request, with successes and failures among them
C29_Witness ==
    /\ lt.pc = "done"
    /\ lt.num_workers = 2
    /\ \A w \in 1..2 : lw[w].completed >= 1
    /\ lt.success_count >= 1
    /\ lt.fail_count >= 1
    /\ Len(lt.latencies) = lt.success_count

\* run() was asked for a duration of 0: by its argument, or by the
\* configuration when the argument is not given
ZeroDuration ==
    \/ lt.requested = <<0>>
    \/ lt.requested = NoArg /\ lt.config.duration = 0

\* C30: a load test run with duration 0 issues no request and returns
\* total = 0, all percentiles 0 and throughput 0.
C30_ZeroDuration ==
    (lt.pc \in { "running", "done" } /\ ZeroDuration) =>
        /\ \A w \in DOMAIN lw : lw[w].issued = 0
        /\ lt.pc = "done" =>
              /\ lt.result.total = 0
              /\ lt.result.p50_latency = 0
              /\ lt.result.p95_latency = 0
              /\ lt.result.p99_latency = 0
              /\ lt.result.throughput[1] = 0


\* ---------------------------------------------------------------------
\* Properties of the finalized load result (SpecFinal, SpecLoad)
\* ---------------------------------------------------------------------

\* The values of pool s below v, and up to v
Below(s, v) == Cardinality({ i \in DOMAIN s : s[i] < v })

UpTo(s, v) == Cardinality({ i \in DOMAIN s : s[i] <= v })

\* v is the value at position k, counted from 0, of pool s in ascending order
AtRank(s, k, v) ==
    /\ \E i \in DOMAIN s : s[i] = v
    /\ Below(s, v) <= k
    /\ k < UpTo(s, v)

\* min(floor(p * n), n - 1) for p = pct / 100
RankOf(pct, n) == IF (pct * n) \div 100 < n - 1 THEN (pct * n) \div 100 ELSE n - 1

\* C31: for a non-empty pool of n latencies, percentile p is the value at
\* position min(floor(p * n), n - 1) of the pool in ascending order, and a
\* finalized result has min <= p50 <= p95 <= p99 <= max, min and max being
\* the smallest and the largest latency.
C31_Percentiles ==
    lt.pc = "done" =>
        LET s == lt.result.latencies
            n == Len(s)
            r == lt.result
        IN  /\ r.min_latency <= r.p50_latency
            /\ r.p50_latency <= r.p95_latency
            /\ r.p95_latency <= r.p99_latency
            /\ r.p99_latency <= r.max_latency
            /\ s # <<>> =>
                  /\ AtRank(s, RankOf(50, n), r.p50_latency)
                  /\ AtRank(s, RankOf(95, n), r.p95_latency)
                  /\ AtRank(s, RankOf(99, n), r.p99_latency)
                  /\ AtRank(s, 0, r.min_latency)
                  /\ AtRank(s, n - 1, r.max_latency)
                  /\ (produced # None) =>
                        AtRank(s, RankOf(produced.pct, n), produced.value)

\* A pool of three latencies that is not in ascending order has been
\* finalized, and its median differs from its 95th percentile
C31_Witness ==
    /\ lt.pc = "done"
    /\ Len(lt.result.latencies) = 3
    /\ lt.result.latencies[1] > lt.result.latencies[2]
    /\ lt.result.p50_latency < lt.result.p95_latency
    /\ produced # None
    /\ produced.pct = 100

\* C32: for the ten latencies 0.1, 0.2, ..., 1.0 the result reports
\* p50 = 0.5, p95 = 0.9, p99 = 0.9 and the maximum 1.0.
C32_TenLatencies ==
    (lt.pc = "done" /\ lt.result.latencies \in { TenLatencies, TenLatenciesReversed }) =>
        /\ lt.result.p50_latency = 5
        /\ lt.result.p95_latency = 9
        /\ lt.result.p99_latency = 9
        /\ lt.result.max_latency = 10


\* The quotient r is n / d
RatioEq(r, n, d) == r[1] * d = n * r[2]

\* C38: every result returned by run has total = success + fail,
\* success_rate = success / total (0 when total = 0) and
\* throughput = total / duration, whatever the outcomes of the requests,
\* a test in which every request failed included.
C38_ResultTotals ==
    lt.pc = "done" =>
        LET r == lt.result
        IN  /\ r.total = r.success + r.fail
            /\ IF r.total = 0 THEN r.success_rate[1] = 0
               ELSE RatioEq(r.success_rate, r.success, r.total)
            /\ r.duration > 0 => RatioEq(r.throughput, r.total, r.duration)


\* ---------------------------------------------------------------------
\* Further properties of apply / rollback (SpecApply)
\* ---------------------------------------------------------------------

\* C33: when an apply fails after it has changed the deployment (the scale
\* succeeded, the resource patch failed), the deployment is restored to
\* the snapshot saved by that call, that is to what it was before the
\* call: it is never left with the new replica count and the old resources.
C33_AutomaticRollback ==
    (/\ lastCall.op = "apply"
     /\ lastCall.save
     /\ lastCall.exc = "KubernetesError"
     /\ Req("scale", TRUE) \in Range(lastCall.log)
     /\ Req("patch", FALSE) \in Range(lastCall.log))
        => /\ dep.replicas = lastCall.dep0.replicas
           /\ dep.limits = lastCall.dep0.limits


\* ---------------------------------------------------------------------
\* Properties of the fitness calculator (SpecFit)
\* ---------------------------------------------------------------------

\* x is in [0, 1]
InUnit(x) == ~QLess(x, Zero) /\ ~QLess(One, x)

\* The metrics are those of the claim: nothing negative, success_rate in [0, 1]
PlausibleMetrics(m) ==
    /\ ~QLess(m.throughput, Zero)
    /\ ~QLess(m.avg_latency, Zero)
    /\ ~QLess(m.p95_latency, Zero)
    /\ InUnit(m.success_rate)
    /\ ~QLess(m.error_rate, Zero)
    /\ ~QLess(m.cpu_utilization, Zero)
    /\ ~QLess(m.memory_utilization, Zero)

\* C34: for metrics with nothing negative and a success rate in [0, 1],
\* each of the four sub-scores is in [0, 1], the calculator's normalized
\* weights sum to 1, and calculate returns a score in [0, 1.2].
C34_FitnessRange ==
    (produced # None /\ produced.op = "calculate" /\ PlausibleMetrics(produced.metrics)) =>
        /\ InUnit(produced.throughput_score)
        /\ InUnit(produced.latency_score)
        /\ InUnit(produced.efficiency_score)
        /\ InUnit(produced.reliability_score)
        /\ QAdd(QAdd(produced.weights.throughput_weight,
                     produced.weights.latency_weight),
                QAdd(produced.weights.resource_efficiency_weight,
                     produced.weights.reliability_weight)) = One
        /\ ~QLess(produced.fitness, Zero)
        /\ ~QLess(Q(12, 10), produced.fitness)

\* A score has been calculated with weights that needed normalizing, for
\* metrics that earn the 1.2 bonus (average utilization 0.4, efficiency
\* 1/3 * 1.2)
C34_Witness ==
    /\ produced # None
    /\ produced.op = "calculate"
    /\ produced.weights.throughput_weight = Q(1, 4)
    /\ QLess(Q(50, 1), produced.metrics.throughput)
    /\ produced.metrics.cpu_utilization = Q(4, 5)
    /\ produced.metrics.memory_utilization = Zero
    /\ produced.efficiency_score = Q(2, 5)
    /\ QLess(Zero, produced.fitness)


\* ---------------------------------------------------------------------
\* Further properties of wait_for_rollout (SpecRollout)
\* ---------------------------------------------------------------------

\* C35: the status on which wait_for_rollout returns true was published by
\* the platform after it had processed the scale and the resource patch
\* applied before the wait: a status that still describes the previous,
\* converged configuration does not end the wait.
C35_NoStaleStatus ==
    [][(wait.pc = "polling" /\ wait'.pc = "done" /\ wait'.ret) => ~stale]_gwVars


\* Deployment d is as a successful apply of some valid individual leaves it
AppliedBy(d) ==
    \E ind \in ValidInds :
        /\ d.exists
        /\ d.replicas = ind.replicas
        /\ d.limits = [cpu |-> CpuQty(ind), memory |-> MemQty(ind)]

\* C36: an apply with save_for_rollback = true that reads the deployment
\* overwrites the snapshot with the configuration read just before it, so
\* after the applies of A and then B a successful rollback() puts the
\* deployment back to what A's apply had left (the replicas and limits it
\* had when B's apply began), not to what it was before A.
C36_SnapshotPerApply ==
    [][ /\ ( /\ IsCall("apply") /\ lastCall'.save
             /\ _validate_individual(lastCall'.ind) = "ok"
             /\ Req("read", TRUE) \in Range(lastCall'.log)
             /\ AppliedBy(dep) )
            => last_config' = Individual(dep.replicas, dep.limits.cpu.n,
                                         dep.limits.memory.n, dep.container)
        /\ ( /\ IsCall("rollback")
             /\ lastCall.op = "apply" /\ lastCall.save /\ lastCall.exc = "ok"
             /\ Req("read", TRUE) \in Range(lastCall.log)
             /\ AppliedBy(lastCall.dep0)
             /\ lastCall'.ret )
            => /\ dep'.replicas = lastCall.dep0.replicas
               /\ dep'.limits = lastCall.dep0.limits
               /\ last_config.replicas = lastCall.dep0.replicas ]_gwVars

\* A (4 replicas, 512 Mi) was applied, then another individual, and the
\* rollback() that followed has put the deployment back to A's configuration
C36_Witness ==
    /\ ncalls = 3
    /\ lastCall.op = "rollback"
    /\ lastCall.ret
    /\ Len(lastCall.log) = 2
    /\ last_config # None
    /\ last_config.replicas = 4
    /\ last_config.memory_limit = 512
    /\ lastCall.dep0.replicas # 4
    /\ dep.replicas = 4
    /\ dep.limits.memory = Qty(512, "Mi")


\* Thread w's evaluation ends inside evaluate() without a measurement: the
\* rollout wait returned False, or a call of the evaluator raised
EndsUnmeasured(w) ==
    /\ workers[w].pc \in { "apply", "rollout", "load", "telemetry" }
    /\ workers'[w].pc = "idle"

\* C37: an evaluation that ends with fitness 0 because the rollout wait
\* returned False or a call inside the evaluator raised is put in the
\* evaluation cache as a measured one is; a later evaluation of an equal
\* individual whose lookup finds that entry within the TTL returns the
\* fitness-0 result as it is, with no apply and no measurement.
C37_ZeroFitnessCached ==
    [][\A w \in Workers :
          LET key == _get_key(workers[w].ind)
          IN  /\ EndsUnmeasured(w)
                 => /\ Len(results') = Len(results) + 1
                    /\ results'[Len(results')].fitness = 0
                    /\ results'[Len(results')].metrics = "zero"
                    /\ IndEq(results'[Len(results')].individual, workers[w].ind)
                    /\ key \in DOMAIN cache'
                    /\ cache'[key] = results'[Len(results')]
              /\ ( /\ workers[w].pc = "cache"
                   /\ workers'[w].pc # "cache"
                   /\ key \in DOMAIN cache
                   /\ cache[key].fitness = 0 )
                 => \/ /\ key \notin DOMAIN cache'
                       /\ workers'[w].pc = "apply"
                       /\ results' = results
                    \/ /\ workers'[w] = IdleWorker
                       /\ results' = Append(results, cache[key])
                       /\ cache' = cache
                       /\ dep' = dep
                       /\ last_config' = last_config ]_vars

\* The first individual's rollout wait returned False; the equal second
\* one and the elite of the next generation got that fitness-0 result from
\* the cache: the snapshot still is the configuration from before the one
\* apply that was made
C37_Witness ==
    /\ generation = 1
    /\ Len(results) >= 1
    /\ results[1].fitness = 0
    /\ results[1].steps = <<Step("apply", "ok"), Step("rollout", "false")>>
    /\ _get_key(results[1].individual) \in DOMAIN cache
    /\ cache[_get_key(results[1].individual)] = results[1]
    /\ last_config # None
    /\ last_config.replicas = RunDeployment.replicas
    /\ dep.replicas = 100


\* ---------------------------------------------------------------------
\* Properties of the survivor pool (SpecSurv)
\* ---------------------------------------------------------------------

\* Position j comes before position i when the scores are put in
\* descending order, equal scores in the order of the population
Before(fs, j, i) == fs[j] > fs[i] \/ (fs[j] = fs[i] /\ j < i)

\* The individuals at the k first positions of that order
TopBy(inds, fs, k) ==
    { inds[i] : i \in { x \in DOMAIN inds :
        Cardinality({ j \in DOMAIN inds : Before(fs, j, x) }) < k } }

SurvivorPool == TopBy(produced.individuals, produced.fitness_scores,
                      Max(1, Len(produced.individuals) \div 2))

ElitePool == TopBy(produced.individuals, produced.fitness_scores, params.elitism_count)

DeltaBound(b) == ((b[2] - b[1]) * 10) \div 100

\* C40: the delta of an integer mutation lies in -floor(range * strength) ..
\* floor(range * strength).  With the default replica bounds (1, 6) and the
\* default strength 0.1 that bound is 0: a mutation that chooses replicas
\* returns an individual equal to its input, no mutation changes replicas,
\* and with crossover_rate = 0 every replica count of the next generation
\* is one of the parent generation.
C40_ReplicaDeltaZero ==
    /\ (produced # None /\ produced.op = "mutate") =>
          LET in  == produced.individual
              out == produced.ind
              rb  == params.replicas_bounds
              mb  == params.memory_limit_bounds
          IN  /\ produced.param = "replicas" =>
                    /\ \E d \in (0 - DeltaBound(rb))..DeltaBound(rb) :
                          out.replicas = Clamp(rb[1], rb[2], in.replicas + d)
                    /\ out.cpu_limit = in.cpu_limit
                    /\ out.memory_limit = in.memory_limit
              /\ produced.param = "memory_limit" =>
                    /\ \E d \in (0 - DeltaBound(mb))..DeltaBound(mb) :
                          out.memory_limit = Clamp(mb[1], mb[2], in.memory_limit + d)
                    /\ out.replicas = in.replicas
                    /\ out.cpu_limit = in.cpu_limit
              /\ rb = DefaultReplicasBounds =>
                    /\ DeltaBound(rb) = 0
                    /\ out.replicas = in.replicas
                    /\ produced.param = "replicas" => out = in
    /\ ( /\ produced # None /\ produced.op = "evolve"
         /\ params.replicas_bounds = DefaultReplicasBounds
         /\ params.crossover_rate = 0 ) =>
          \A k \in DOMAIN population :
             \E i \in DOMAIN produced.individuals :
                population[k].replicas = produced.individuals[i].replicas

\* A mutation that chose replicas under the default bounds has returned its
\* input, an individual with 3 replicas
C40_Witness ==
    /\ produced # None
    /\ produced.op = "mutate"
    /\ produced.param = "replicas"
    /\ params.replicas_bounds = DefaultReplicasBounds
    /\ params.mutation_rate = 100
    /\ produced.individual.replicas = 3
    /\ produced.ind = produced.individual


=============================================================================
